---- MODULE Spec2Model ----
(***************************************************************************)
(* The grid-placement engine of the tournament scheduler (src/src/store.ts *)
(* and src/src/types.ts): rounds of a fixed span are placed on a grid of   *)
(* time-slot rows and court columns, with a bounded undo history.          *)
(***************************************************************************)
EXTENDS Integers, Sequences, FiniteSets, TLC

VARIABLES
    courtCount,       \* settings.courtCount
    series,           \* state.series: sequence of [id, name, rounds]
    schedule,         \* state.schedule: sequence of [roundId, row, startCol]
    scheduleHistory,  \* state.scheduleHistory: sequence of schedules
    last,             \* the store action that ran last and the branch it took
    run               \* bookkeeping of the scripted runs (SpecUndo)

vars == <<courtCount, series, schedule, scheduleHistory, last, run>>

(***************************************************************************)
(* Bounds of the model.                                                    *)
(***************************************************************************)
\* Target cells offered to the operations lie on rows 0..MaxRow.
MaxRow == 1
\* settings.courtCount of the fixed configuration of Spec.
BaseCourtCount == 3
\* Spec stops issuing mutating operations once the history holds MaxHist
\* snapshots (undo frees a slot again).
MaxHist == 2
\* Rows the row search of autoSchedule may visit before it is reported as
\* not returning.
SearchCap == 12

\* Operations a scripted run of SpecUndo issues before it only undoes.
MaxOps == 22
\* SpecAuto draws its configuration from two series of at most MaxRounds
\* rounds each, spans 1..MaxSpan and 1..MaxCourts courts.
MaxRounds == 2
MaxSpan == 2
MaxCourts == 2

\* SpecGrid draws 1..MaxLanes courts and one round of span 1..MaxGridSpan.
MaxLanes == 8
MaxGridSpan == 4

\* slice(-20): the history keeps the last 20 snapshots.
HistoryCap == 20

(***************************************************************************)
(* Generic helpers.                                                        *)
(***************************************************************************)
Min(S) == CHOOSE x \in S : \A y \in S : x <= y
Max(S) == CHOOSE x \in S : \A y \in S : x >= y

Range(s) == {s[i] : i \in 1..Len(s)}

\* Array.prototype.slice(-n)
LastN(s, n) == IF Len(s) <= n THEN s ELSE SubSeq(s, Len(s) - n + 1, Len(s))

\* Array.prototype.sort, which is stable: the items are [key, val] with key a
\* pair <<k1, k2>>, ordered by k1 and then by k2, ascending; items of equal
\* key keep their order.
KeyLess(a, b) == a[1] < b[1] \/ (a[1] = b[1] /\ a[2] < b[2])

RECURSIVE InsertSorted(_, _)
InsertSorted(x, s) ==
    IF s = <<>> THEN <<x>>
    ELSE IF KeyLess(x.key, Head(s).key) THEN <<x>> \o s
    ELSE <<Head(s)>> \o InsertSorted(x, Tail(s))

RECURSIVE StableSort(_)
StableSort(s) ==
    IF s = <<>> THEN <<>>
    ELSE InsertSorted(s[Len(s)], StableSort(SubSeq(s, 1, Len(s) - 1)))

Vals(s) == [i \in 1..Len(s) |-> s[i].val]

(***************************************************************************)
(* Grid addressing (types.ts).                                             *)
(***************************************************************************)
\* The walk wrapping one column too late.
RECURSIVE getRoundCellPositions_WrapsLate(_, _, _, _)
getRoundCellPositions_WrapsLate(startRow, startCol, matchCount, cc) ==
    IF matchCount <= 0 THEN <<>>
    ELSE LET wrap == startCol + 1 > cc
         IN  <<[row |-> startRow, col |-> startCol]>> \o
             getRoundCellPositions_WrapsLate(IF wrap THEN startRow + 1 ELSE startRow,
                                             IF wrap THEN 0 ELSE startCol + 1,
                                             matchCount - 1, cc)

\* The cells a round occupies, walking matchCount cells from
\* (startRow, startCol) and wrapping to column 0 of the next row.
RECURSIVE getRoundCellPositions(_, _, _, _)
getRoundCellPositions(startRow, startCol, matchCount, cc) ==
    IF matchCount <= 0 THEN <<>>
    ELSE LET wrap == startCol + 1 >= cc
         IN  <<[row |-> startRow, col |-> startCol]>> \o
             getRoundCellPositions(IF wrap THEN startRow + 1 ELSE startRow,
                                   IF wrap THEN 0 ELSE startCol + 1,
                                   matchCount - 1, cc)

posToLinearIndex(pos, cc) == pos.row * cc + pos.col

\* The column taken modulo one more than the number of courts.
indexToPos_WideRow(i, cc) == [row |-> i \div cc, col |-> i % (cc + 1)]

\* Math.floor(i / courtCount), i % courtCount
indexToPos(i, cc) == [row |-> i \div cc, col |-> i % cc]

(***************************************************************************)
(* Series and round lookup.                                                *)
(***************************************************************************)
\* A round id is a pair; this one is the id of no round.
NoRound == [id |-> <<"none", 0>>, seriesId |-> "none", roundNumber |-> 0, matchCount |-> 0]

RECURSIVE AllRounds(_)
AllRounds(ser) ==
    IF ser = <<>> THEN <<>> ELSE Head(ser).rounds \o AllRounds(Tail(ser))

\* for (const s of series) { const r = s.rounds.find(r => r.id === roundId) ... }
FindRound(ser, roundId) ==
    LET rs   == AllRounds(ser)
        hits == {i \in 1..Len(rs) : rs[i].id = roundId}
    IN  IF hits = {} THEN NoRound ELSE rs[Min(hits)]

RoundIds(ser) == {r.id : r \in Range(AllRounds(ser))}

SeriesOf(ser, roundId) == FindRound(ser, roundId).seriesId

\* getOccupiedPositions of removeEmptyCell and scheduleRoundWithPush: the
\* footprint of a schedule entry, or its start cell when its round is unknown.
getOccupiedPositions(ser, cc, sr) ==
    LET r == FindRound(ser, sr.roundId)
    IN  IF r # NoRound
        THEN getRoundCellPositions(sr.row, sr.startCol, r.matchCount, cc)
        ELSE <<[row |-> sr.row, col |-> sr.startCol]>>

Entry(roundId, row, col) == [roundId |-> roundId, row |-> row, startCol |-> col]

\* The history push keeping the first 20 snapshots instead of the last 20.
PushHistory_KeepsOldest(hist, sch) ==
    SubSeq(Append(hist, sch), 1, IF Len(hist) + 1 <= HistoryCap THEN Len(hist) + 1 ELSE HistoryCap)

\* [...state.scheduleHistory, state.schedule].slice(-20)
PushHistory(hist, sch) == LastN(Append(hist, sch), HistoryCap)

StartIndex(sr, cc) == posToLinearIndex([row |-> sr.row, col |-> sr.startCol], cc)

\* positions.some(p => other.some(o => o.row === p.row && o.col === p.col))
Overlaps(ps, qs) == Range(ps) \cap Range(qs) # {}

(***************************************************************************)
(* The store's schedule operations as functions of the state they read.    *)
(* Each yields [outcome, schedule]: the branch taken and the new schedule. *)
(***************************************************************************)
Applied(sch) == [outcome |-> "applied", schedule |-> sch]
Refused(why, sch) == [outcome |-> why, schedule |-> sch]

\* scheduleRound without the removal of the round's previous entry.
scheduleRoundResult_KeepsOldEntry(sch, roundId, row, col) ==
    [outcome |-> "applied", schedule |-> sch \o <<Entry(roundId, row, col)>>]

\* scheduleRound leaving the schedule alone when the start cell is the start
\* cell of another entry.
scheduleRoundResult_SkipsTakenCell(sch, roundId, row, col) ==
    IF \E i \in 1..Len(sch) :
           sch[i].roundId # roundId /\ sch[i].row = row /\ sch[i].startCol = col
    THEN [outcome |-> "applied", schedule |-> sch]
    ELSE [outcome |-> "applied",
          schedule |-> SelectSeq(sch, LAMBDA sr : sr.roundId # roundId)
                           \o <<Entry(roundId, row, col)>>]

\* scheduleRound: drop the round's entry, append the new one; no validation.
scheduleRoundResult(sch, roundId, row, col) ==
    Applied(SelectSeq(sch, LAMBDA sr : sr.roundId # roundId)
            \o <<Entry(roundId, row, col)>>)

\* unscheduleRound
unscheduleRoundResult(sch, roundId) ==
    Applied(SelectSeq(sch, LAMBDA sr : sr.roundId # roundId))

\* moveScheduledRound giving a round that has no entry one at the position.
moveScheduledRoundResult_Places(sch, roundId, newRow, newCol) ==
    IF \E i \in 1..Len(sch) : sch[i].roundId = roundId
    THEN Applied([i \in 1..Len(sch) |->
                     IF sch[i].roundId = roundId
                     THEN [sch[i] EXCEPT !.row = newRow, !.startCol = newCol]
                     ELSE sch[i]])
    ELSE scheduleRoundResult(sch, roundId, newRow, newCol)

\* moveScheduledRound: rewrite the position of the round's entry in place.
moveScheduledRoundResult(sch, roundId, newRow, newCol) ==
    Applied([i \in 1..Len(sch) |->
                IF sch[i].roundId = roundId
                THEN [sch[i] EXCEPT !.row = newRow, !.startCol = newCol]
                ELSE sch[i]])

\* clearSchedule
clearScheduleResult == Applied(<<>>)

\* The schedule entries sorted by start index: ascending, or descending.
SortByStart(srs, cc, descending) ==
    Vals(StableSort([i \in 1..Len(srs) |->
        [key |-> <<0, IF descending THEN 0 - StartIndex(srs[i], cc)
                      ELSE StartIndex(srs[i], cc)>>,
         val |-> srs[i]]]))

\* The shift moving the column only, without going through the linear index.
ShiftAll_ColumnOnly(srs, delta, cc) ==
    [i \in 1..Len(srs) |-> [srs[i] EXCEPT !.startCol = @ + delta]]

\* Every entry's start moved by delta cells in linear order.
ShiftAll(srs, delta, cc) ==
    [i \in 1..Len(srs) |->
        LET p == indexToPos(StartIndex(srs[i], cc) + delta, cc)
        IN  [srs[i] EXCEPT !.row = p.row, !.startCol = p.col]]

\* The emptiness test looking at the start cells only.
cellOccupied_StartCellOnly(ser, cc, sch, row, col) ==
    \E i \in 1..Len(sch) : sch[i].row = row /\ sch[i].startCol = col

\* schedule.some(sr => getOccupiedPositions(sr).some(p => p.row === row && p.col === col))
cellOccupied(ser, cc, sch, row, col) ==
    \E i \in 1..Len(sch) :
        [row |-> row, col |-> col] \in Range(getOccupiedPositions(ser, cc, sch[i]))

\* removeEmptyCell
removeEmptyCellResult(ser, cc, sch, row, col) ==
    LET targetCellIndex == posToLinearIndex([row |-> row, col |-> col], cc)
        roundsToShift ==
            SortByStart(SelectSeq(sch, LAMBDA sr : StartIndex(sr, cc) > targetCellIndex),
                        cc, FALSE)
        roundsNotToShift ==
            SelectSeq(sch, LAMBDA sr : ~(StartIndex(sr, cc) > targetCellIndex))
    IN  IF cellOccupied(ser, cc, sch, row, col) THEN Refused("occupied", sch)
        ELSE Applied(roundsNotToShift \o ShiftAll(roundsToShift, 0 - 1, cc))

\* The rows scheduleRoundNext scans after the last used row.
ScanRows == 5

\* The last row in use taken from the start rows, without the rows the
\* footprints wrap onto.
NextCell_StartRowsOnly(ser, cc, sch, matchCount) ==
    IF Len(sch) = 0 THEN [row |-> 0, col |-> 0]
    ELSE
    LET rowsOf(sr) ==
            LET r == FindRound(ser, sr.roundId)
            IN  IF r # NoRound
                THEN {sr.row}
                ELSE {sr.row}
        maxRow == Max(UNION {rowsOf(sch[i]) : i \in 1..Len(sch)})
        arePositionsFree(startRow, startCol) ==
            LET testPositions == getRoundCellPositions(startRow, startCol, matchCount, cc)
            IN  ~ \E i \in 1..Len(sch) :
                    LET r == FindRound(ser, sch[i].roundId)
                    IN  /\ r # NoRound
                        /\ Overlaps(testPositions,
                                    getRoundCellPositions(sch[i].row, sch[i].startCol,
                                                          r.matchCount, cc))
        free == {i \in (maxRow * cc)..((maxRow + ScanRows) * cc + cc - 1) :
                    arePositionsFree(i \div cc, i % cc)}
    IN  IF free # {} /\ cc > 0 THEN indexToPos(Min(free), cc)
        ELSE [row |-> maxRow + 1, col |-> 0]

\* The scan of scheduleRoundNext starting on the row after the last one.
NextCell_FromNextRow(ser, cc, sch, matchCount) ==
    IF Len(sch) = 0 THEN [row |-> 0, col |-> 0]
    ELSE
    LET rowsOf(sr) ==
            LET r == FindRound(ser, sr.roundId)
            IN  IF r # NoRound
                THEN {p.row : p \in Range(getRoundCellPositions(sr.row, sr.startCol,
                                                                 r.matchCount, cc))}
                ELSE {sr.row}
        maxRow == Max(UNION {rowsOf(sch[i]) : i \in 1..Len(sch)})
        arePositionsFree(startRow, startCol) ==
            LET testPositions == getRoundCellPositions(startRow, startCol, matchCount, cc)
            IN  ~ \E i \in 1..Len(sch) :
                    LET r == FindRound(ser, sch[i].roundId)
                    IN  /\ r # NoRound
                        /\ Overlaps(testPositions,
                                    getRoundCellPositions(sch[i].row, sch[i].startCol,
                                                          r.matchCount, cc))
        free == {i \in ((maxRow + 1) * cc)..((maxRow + ScanRows) * cc + cc - 1) :
                    arePositionsFree(i \div cc, i % cc)}
    IN  IF free # {} /\ cc > 0 THEN indexToPos(Min(free), cc)
        ELSE [row |-> maxRow + 1, col |-> 0]

\* scheduleRoundNext: the cell it picks for the round.
NextCell(ser, cc, sch, matchCount) ==
    IF Len(sch) = 0 THEN [row |-> 0, col |-> 0]
    ELSE
    LET rowsOf(sr) ==
            LET r == FindRound(ser, sr.roundId)
            IN  IF r # NoRound
                THEN {p.row : p \in Range(getRoundCellPositions(sr.row, sr.startCol,
                                                                 r.matchCount, cc))}
                ELSE {sr.row}
        maxRow == Max(UNION {rowsOf(sch[i]) : i \in 1..Len(sch)})
        arePositionsFree(startRow, startCol) ==
            LET testPositions == getRoundCellPositions(startRow, startCol, matchCount, cc)
            IN  ~ \E i \in 1..Len(sch) :
                    LET r == FindRound(ser, sch[i].roundId)
                    IN  /\ r # NoRound
                        /\ Overlaps(testPositions,
                                    getRoundCellPositions(sch[i].row, sch[i].startCol,
                                                          r.matchCount, cc))
        free == {i \in (maxRow * cc)..((maxRow + ScanRows) * cc + cc - 1) :
                    arePositionsFree(i \div cc, i % cc)}
    IN  IF free # {} /\ cc > 0 THEN indexToPos(Min(free), cc)
        ELSE [row |-> maxRow + 1, col |-> 0]

\* scheduleRoundNext going on to place a round it did not find.
scheduleRoundNextResult_PlacesUnknown(ser, cc, sch, roundId) ==
    LET cell == NextCell(ser, cc, sch, FindRound(ser, roundId).matchCount)
    IN  scheduleRoundResult(sch, roundId, cell.row, cell.col)

scheduleRoundNextResult(ser, cc, sch, roundId) ==
    LET targetRound == FindRound(ser, roundId)
        cell == NextCell(ser, cc, sch, targetRound.matchCount)
    IN  IF targetRound = NoRound THEN Refused("notfound", sch)
        ELSE scheduleRoundResult(sch, roundId, cell.row, cell.col)

\* The validation loop with its upper comparison off by one.
cutsThrough_OffByOne(ser, cc, sr, targetPositions) ==
    LET positions == getOccupiedPositions(ser, cc, sr)
        overlappingCells ==
            Cardinality({i \in 1..Len(positions) : positions[i] \in Range(targetPositions)})
    IN  overlappingCells > 0 /\ overlappingCells < Len(positions) - 1

\* The validation loop left out: no target is refused.
cutsThrough_Never(ser, cc, sr, targetPositions) ==
    Len(targetPositions) < 0

\* The validation loop refusing only a target that covers the first cell
\* of the entry and not all of it.
cutsThrough_HeadOnly(ser, cc, sr, targetPositions) ==
    LET positions == getOccupiedPositions(ser, cc, sr)
        overlappingCells ==
            Cardinality({i \in 1..Len(positions) : positions[i] \in Range(targetPositions)})
    IN  /\ overlappingCells > 0
        /\ overlappingCells < Len(positions)
        /\ positions[1] \in Range(targetPositions)

\* The validation loop of scheduleRoundWithPush: the entry has some but not
\* all of its cells under the target positions.
cutsThrough(ser, cc, sr, targetPositions) ==
    LET positions == getOccupiedPositions(ser, cc, sr)
        overlappingCells ==
            Cardinality({i \in 1..Len(positions) : positions[i] \in Range(targetPositions)})
    IN  overlappingCells > 0 /\ overlappingCells < Len(positions)

\* Only the entries under the target positions are moved.
mustShift_OverlapOnly(ser, cc, sr, targetPositions, targetStartIndex) ==
    Overlaps(getOccupiedPositions(ser, cc, sr), targetPositions)

\* Only the entries that start after the insertion point are moved.
mustShift_AfterOnly(ser, cc, sr, targetPositions, targetStartIndex) ==
    StartIndex(sr, cc) > targetStartIndex

\* The entries scheduleRoundWithPush moves: those under the target positions
\* and those that start at or after the insertion point.
mustShift(ser, cc, sr, targetPositions, targetStartIndex) ==
    \/ Overlaps(getOccupiedPositions(ser, cc, sr), targetPositions)
    \/ StartIndex(sr, cc) >= targetStartIndex

\* The placement without shifting is never taken.
hasAnyOverlap_Always(ser, cc, newSchedule, targetPositions) ==
    Len(newSchedule) >= 0

\* hasAnyOverlap of scheduleRoundWithPush: some entry has a cell under the
\* target positions.
hasAnyOverlap(ser, cc, newSchedule, targetPositions) ==
    \E i \in 1..Len(newSchedule) :
        Overlaps(getOccupiedPositions(ser, cc, newSchedule[i]), targetPositions)

\* scheduleRoundWithPush
scheduleRoundWithPushResult(ser, cc, sch, roundId, row, col) ==
    LET targetRound == FindRound(ser, roundId)
        matchCount == targetRound.matchCount
        targetPositions == getRoundCellPositions(row, col, matchCount, cc)
        targetStartIndex == posToLinearIndex([row |-> row, col |-> col], cc)
        newSchedule == SelectSeq(sch, LAMBDA sr : sr.roundId # roundId)
        shifts(sr) == mustShift(ser, cc, sr, targetPositions, targetStartIndex)
        roundsToShift == SortByStart(SelectSeq(newSchedule, shifts), cc, TRUE)
        roundsNotToShift == SelectSeq(newSchedule, LAMBDA sr : ~shifts(sr))
    IN  IF targetRound = NoRound THEN Refused("notfound", sch)
        ELSE IF \E i \in 1..Len(newSchedule) :
                    cutsThrough(ser, cc, newSchedule[i], targetPositions)
        THEN Refused("middle", sch)
        ELSE IF ~hasAnyOverlap(ser, cc, newSchedule, targetPositions)
        THEN Applied(newSchedule \o <<Entry(roundId, row, col)>>)
        ELSE Applied(roundsNotToShift \o <<Entry(roundId, row, col)>>
                     \o ShiftAll(roundsToShift, matchCount, cc))

(***************************************************************************)
(* canScheduleRound.  It yields [valid, reason]; the reason names the      *)
(* check that failed: "notfound", "courts", "occupied", "seriesRow",       *)
(* "order", or "valid" when every check passed.                            *)
(***************************************************************************)
Valid == [valid |-> TRUE, reason |-> "valid"]
Invalid(reason) == [valid |-> FALSE, reason |-> reason]

\* excludeRoundId left out by the caller (undefined).
NoExclude == NoRound.id

\* The series the round is found in: the first one holding a round of that id.
FindSeries(ser, roundId) ==
    LET hits == {i \in 1..Len(ser) :
                    \E j \in 1..Len(ser[i].rounds) : ser[i].rounds[j].id = roundId}
    IN  IF hits = {} THEN [id |-> "none", name |-> 0, rounds |-> <<>>]
        ELSE ser[Min(hits)]

\* The column bound letting a round end one column past the last court.
outOfCourts_OffByOne(col, matchCount, cc) ==
    col < 0 \/ col + matchCount - 1 > cc

\* col < 0 || endCol >= settings.courtCount
outOfCourts(col, matchCount, cc) ==
    col < 0 \/ col + matchCount - 1 >= cc

\* getOccupiedCols: the columns startCol, startCol + 1, ... of an entry, as
\* many as its round has matches, or its start column when the round is
\* unknown.
getOccupiedCols(ser, sr) ==
    LET r == FindRound(ser, sr.roundId)
    IN  IF r # NoRound THEN {sr.startCol + i : i \in 0..(r.matchCount - 1)}
        ELSE {sr.startCol}

\* The cell check looking at the start columns of the entries only.
colsOccupied_StartsOnly(ser, sch, roundId, row, col, endCol, excludeRoundId) ==
    \E c \in col..endCol :
        \E i \in 1..Len(sch) :
            /\ ~(sch[i].roundId = excludeRoundId \/ sch[i].roundId = roundId)
            /\ sch[i].row = row
            /\ c = sch[i].startCol

\* Some column col..endCol is an occupied column of an entry that starts on
\* this row and is neither the round nor the excluded one.
colsOccupied(ser, sch, roundId, row, col, endCol, excludeRoundId) ==
    \E c \in col..endCol :
        \E i \in 1..Len(sch) :
            /\ ~(sch[i].roundId = excludeRoundId \/ sch[i].roundId = roundId)
            /\ sch[i].row = row
            /\ c \in getOccupiedCols(ser, sch[i])

\* An entry of another round of the target series starts on this row.
sameSeriesInRow(targetSeries, sch, roundId, row, excludeRoundId) ==
    \E i \in 1..Len(sch) :
        /\ sch[i].row = row
        /\ sch[i].roundId \in {r.id : r \in Range(targetSeries.rounds)}
        /\ sch[i].roundId # excludeRoundId
        /\ sch[i].roundId # roundId

\* The ordering loop comparing against the earlier rounds only.
orderViolated_EarlierOnly(targetSeries, targetRound, sch, roundId, row, excludeRoundId) ==
    \E i \in 1..Len(sch) :
        /\ ~(sch[i].roundId = excludeRoundId \/ sch[i].roundId = roundId)
        /\ \E r \in Range(targetSeries.rounds) :
               /\ r.id = sch[i].roundId
               /\ r.roundNumber < targetRound.roundNumber /\ sch[i].row > row

\* The ordering loop: an earlier round of the series starts on a later row,
\* or a later round on an earlier row.
orderViolated(targetSeries, targetRound, sch, roundId, row, excludeRoundId) ==
    \E i \in 1..Len(sch) :
        /\ ~(sch[i].roundId = excludeRoundId \/ sch[i].roundId = roundId)
        /\ LET hits == {j \in 1..Len(targetSeries.rounds) :
                            targetSeries.rounds[j].id = sch[i].roundId}
               scheduledRound == targetSeries.rounds[Min(hits)]
           IN  /\ hits # {}
               /\ \/ (scheduledRound.roundNumber < targetRound.roundNumber
                           /\ sch[i].row > row)
                  \/ (scheduledRound.roundNumber > targetRound.roundNumber
                           /\ sch[i].row < row)

\* canScheduleRound looking for the series on the row before it looks at
\* the cells.
canScheduleRoundResult_SeriesRowFirst(ser, cc, sch, roundId, row, col, excludeRoundId) ==
    LET targetRound == FindRound(ser, roundId)
        targetSeries == FindSeries(ser, roundId)
        matchCount == targetRound.matchCount
        endCol == col + matchCount - 1
    IN  IF targetRound = NoRound THEN Invalid("notfound")
        ELSE IF outOfCourts(col, matchCount, cc) THEN Invalid("courts")
        ELSE IF sameSeriesInRow(targetSeries, sch, roundId, row, excludeRoundId)
        THEN Invalid("seriesRow")
        ELSE IF colsOccupied(ser, sch, roundId, row, col, endCol, excludeRoundId)
        THEN Invalid("occupied")
        ELSE IF orderViolated(targetSeries, targetRound, sch, roundId, row, excludeRoundId)
        THEN Invalid("order")
        ELSE Valid

\* canScheduleRound
canScheduleRoundResult(ser, cc, sch, roundId, row, col, excludeRoundId) ==
    LET targetRound == FindRound(ser, roundId)
        targetSeries == FindSeries(ser, roundId)
        matchCount == targetRound.matchCount
        endCol == col + matchCount - 1
    IN  IF targetRound = NoRound THEN Invalid("notfound")
        ELSE IF outOfCourts(col, matchCount, cc) THEN Invalid("courts")
        ELSE IF colsOccupied(ser, sch, roundId, row, col, endCol, excludeRoundId)
        THEN Invalid("occupied")
        ELSE IF sameSeriesInRow(targetSeries, sch, roundId, row, excludeRoundId)
        THEN Invalid("seriesRow")
        ELSE IF orderViolated(targetSeries, targetRound, sch, roundId, row, excludeRoundId)
        THEN Invalid("order")
        ELSE Valid

(***************************************************************************)
(* autoSchedule.                                                           *)
(***************************************************************************)
\* The rounds in the order of the series list, unsorted.
SortedRounds_ListOrder(ser) ==
    AllRounds([i \in 1..Len(ser) |->
        [rounds |-> [j \in 1..Len(ser[i].rounds) |->
                        [round |-> ser[i].rounds[j], sid |-> ser[i].id]]]])

\* allRounds after the sort by series name and then round number.  The
\* items carry the round and the series it was collected from.
SortedRounds(ser) ==
    LET flat == AllRounds([i \in 1..Len(ser) |->
                    [rounds |-> [j \in 1..Len(ser[i].rounds) |->
                                    [key |-> <<ser[i].name, ser[i].rounds[j].roundNumber>>,
                                     val |-> [round |-> ser[i].rounds[j],
                                              sid |-> ser[i].id]]]]])
    IN  Vals(StableSort(flat))

\* arePositionsAvailable looking at the start cells only.
arePositionsAvailable_StartCellOnly(ser, cc, newSchedule, startRow, startCol, count) ==
    ~ \E i \in 1..Len(newSchedule) :
        newSchedule[i].row = startRow /\ newSchedule[i].startCol = startCol

\* arePositionsAvailable of autoSchedule
arePositionsAvailable(ser, cc, newSchedule, startRow, startCol, count) ==
    LET testPositions == getRoundCellPositions(startRow, startCol, count, cc)
    IN  ~ \E i \in 1..Len(newSchedule) :
            LET r == FindRound(ser, newSchedule[i].roundId)
            IN  /\ r # NoRound
                /\ Overlaps(testPositions,
                            getRoundCellPositions(newSchedule[i].row, newSchedule[i].startCol,
                                                  r.matchCount, cc))

\* The column loop accepting only a start from which the round fits on the
\* row without wrapping.
AcceptableCol_NoWrap(ser, cc, acc, sid, row, matchCount) ==
    LET ok == {c \in 0..(cc - 1) :
                 /\ c + matchCount <= cc
                 /\ arePositionsAvailable(ser, cc, acc.newSchedule, row, c, matchCount)
                 /\ ~ \E p \in Range(getRoundCellPositions(row, c, matchCount, cc)) :
                        <<p.row, sid>> \in acc.rowSeriesMap}
    IN  IF ok = {} THEN 0 - 1 ELSE Min(ok)

\* The body of the column loop: the first column of the row that is free and
\* whose rows do not hold the series yet, or -1.
AcceptableCol(ser, cc, acc, sid, row, matchCount) ==
    LET ok == {c \in 0..(cc - 1) :
                 /\ arePositionsAvailable(ser, cc, acc.newSchedule, row, c, matchCount)
                 /\ ~ \E p \in Range(getRoundCellPositions(row, c, matchCount, cc)) :
                        <<p.row, sid>> \in acc.rowSeriesMap}
    IN  IF ok = {} THEN 0 - 1 ELSE Min(ok)

\* while (!placed) { ... row++ }: the first row from `row` on with an acceptable
\* column; row -1 when none is found within SearchCap rows.
RECURSIVE SearchRow(_, _, _, _, _, _, _)
SearchRow(ser, cc, acc, sid, row, matchCount, fuel) ==
    IF fuel = 0 THEN [row |-> 0 - 1, col |-> 0 - 1]
    ELSE LET c == AcceptableCol(ser, cc, acc, sid, row, matchCount)
         IN  IF c >= 0 THEN [row |-> row, col |-> c]
             ELSE SearchRow(ser, cc, acc, sid, row + 1, matchCount, fuel - 1)

\* The minimum row is never advanced.
minRowAfter_Zero(maxRowUsed) == 0 * maxRowUsed

\* seriesMinRow.set(s.id, maxRowUsed + 1)
minRowAfter(maxRowUsed) == maxRowUsed + 1

\* One iteration of the loop over the sorted rounds.
PlaceOne(ser, cc, acc, item) ==
    LET sid == item.sid
        matchCount == item.round.matchCount
        minRowForRound == IF sid \in DOMAIN acc.seriesMinRow
                          THEN acc.seriesMinRow[sid] ELSE 0
        at == SearchRow(ser, cc, acc, sid, minRowForRound, matchCount, SearchCap)
        positions == getRoundCellPositions(at.row, at.col, matchCount, cc)
        maxRowUsed == Max({p.row : p \in Range(positions)})
    IN  IF acc.diverged \/ at.row < 0 THEN [acc EXCEPT !.diverged = TRUE]
        ELSE [newSchedule  |-> Append(acc.newSchedule, Entry(item.round.id, at.row, at.col)),
              rowSeriesMap |-> acc.rowSeriesMap \cup {<<p.row, sid>> : p \in Range(positions)},
              seriesMinRow |-> [s \in DOMAIN acc.seriesMinRow \cup {sid} |->
                                   IF s = sid THEN minRowAfter(maxRowUsed)
                                   ELSE acc.seriesMinRow[s]],
              diverged     |-> FALSE]

RECURSIVE PlaceAll(_, _, _, _)
PlaceAll(ser, cc, acc, items) ==
    IF items = <<>> THEN acc
    ELSE PlaceAll(ser, cc, PlaceOne(ser, cc, acc, Head(items)), Tail(items))

\* autoSchedule packing around the entries the schedule already has.
autoScheduleResult_KeepsPlaced(ser, cc, sch) ==
    LET acc == PlaceAll(ser, cc,
                        [newSchedule |-> sch, rowSeriesMap |-> {},
                         seriesMinRow |-> <<>>, diverged |-> FALSE],
                        SortedRounds(ser))
    IN  IF acc.diverged THEN Refused("diverges", sch) ELSE Applied(acc.newSchedule)

autoScheduleResult(ser, cc, sch) ==
    LET acc == PlaceAll(ser, cc,
                        [newSchedule |-> <<>>, rowSeriesMap |-> {},
                         seriesMinRow |-> <<>>, diverged |-> FALSE],
                        SortedRounds(ser))
    IN  IF acc.diverged THEN Refused("diverges", sch) ELSE Applied(acc.newSchedule)

\* undoSchedule taking the oldest snapshot instead of the most recent one.
undoScheduleResult_Oldest(hist, sch) ==
    IF Len(hist) = 0 THEN [outcome |-> "empty", schedule |-> sch, history |-> hist]
    ELSE [outcome |-> "applied", schedule |-> hist[1],
          history |-> SubSeq(hist, 2, Len(hist))]

\* undoSchedule restoring the last snapshot without removing it.
undoScheduleResult_NoPop(hist, sch) ==
    IF Len(hist) = 0 THEN [outcome |-> "empty", schedule |-> sch, history |-> hist]
    ELSE [outcome |-> "applied", schedule |-> hist[Len(hist)], history |-> hist]

\* undoSchedule keeping the undone schedule in the history.
undoScheduleResult_PushesCurrent(hist, sch) ==
    IF Len(hist) = 0 THEN [outcome |-> "empty", schedule |-> sch, history |-> hist]
    ELSE [outcome |-> "applied", schedule |-> hist[Len(hist)],
          history |-> Append(SubSeq(hist, 1, Len(hist) - 1), sch)]

\* undoSchedule
undoScheduleResult(hist, sch) ==
    IF Len(hist) = 0 THEN [outcome |-> "empty", schedule |-> sch, history |-> hist]
    ELSE [outcome |-> "applied", schedule |-> hist[Len(hist)],
          history |-> SubSeq(hist, 1, Len(hist) - 1)]

(***************************************************************************)
(* The store actions.  Each reads the state with get() and commits with    *)
(* set(); a branch that returns early commits nothing.                     *)
(***************************************************************************)
Ran(op, outcome) == [op |-> op, outcome |-> outcome]

scheduleRound(roundId, row, col) ==
    /\ scheduleHistory' = PushHistory(scheduleHistory, schedule)
    /\ schedule' = scheduleRoundResult(schedule, roundId, row, col).schedule
    /\ last' = Ran("scheduleRound", "applied")
    /\ UNCHANGED <<courtCount, series>>

unscheduleRound(roundId) ==
    /\ scheduleHistory' = PushHistory(scheduleHistory, schedule)
    /\ schedule' = unscheduleRoundResult(schedule, roundId).schedule
    /\ last' = Ran("unscheduleRound", "applied")
    /\ UNCHANGED <<courtCount, series>>

moveScheduledRound(roundId, newRow, newCol) ==
    /\ scheduleHistory' = PushHistory(scheduleHistory, schedule)
    /\ schedule' = moveScheduledRoundResult(schedule, roundId, newRow, newCol).schedule
    /\ last' = Ran("moveScheduledRound", "applied")
    /\ UNCHANGED <<courtCount, series>>

\* removeEmptyCell pushing the history before it looks at the cell.
removeEmptyCell_PushesFirst(row, col) ==
    LET res == removeEmptyCellResult(series, courtCount, schedule, row, col)
    IN  /\ schedule' = res.schedule
        /\ scheduleHistory' = PushHistory(scheduleHistory, schedule)
        /\ last' = Ran("removeEmptyCell", res.outcome)
        /\ UNCHANGED <<courtCount, series>>

removeEmptyCell(row, col) ==
    LET res == removeEmptyCellResult(series, courtCount, schedule, row, col)
    IN  /\ IF res.outcome = "applied"
           THEN /\ schedule' = res.schedule
                /\ scheduleHistory' = PushHistory(scheduleHistory, schedule)
           ELSE UNCHANGED <<schedule, scheduleHistory>>
        /\ last' = Ran("removeEmptyCell", res.outcome)
        /\ UNCHANGED <<courtCount, series>>

clearSchedule ==
    /\ scheduleHistory' = PushHistory(scheduleHistory, schedule)
    /\ schedule' = clearScheduleResult.schedule
    /\ last' = Ran("clearSchedule", "applied")
    /\ UNCHANGED <<courtCount, series>>

undoSchedule ==
    LET res == undoScheduleResult(scheduleHistory, schedule)
    IN  /\ schedule' = res.schedule
        /\ scheduleHistory' = res.history
        /\ last' = Ran("undoSchedule", res.outcome)
        /\ UNCHANGED <<courtCount, series>>

\* scheduleRoundNext returns when the round is unknown and otherwise places it
\* through scheduleRound, which pushes the history.
scheduleRoundNext(roundId) ==
    LET res == scheduleRoundNextResult(series, courtCount, schedule, roundId)
    IN  /\ IF res.outcome = "applied"
           THEN /\ schedule' = res.schedule
                /\ scheduleHistory' = PushHistory(scheduleHistory, schedule)
           ELSE UNCHANGED <<schedule, scheduleHistory>>
        /\ last' = Ran("scheduleRoundNext", res.outcome)
        /\ UNCHANGED <<courtCount, series>>

scheduleRoundWithPush(roundId, row, col) ==
    LET res == scheduleRoundWithPushResult(series, courtCount, schedule, roundId, row, col)
    IN  /\ IF res.outcome = "applied"
           THEN /\ schedule' = res.schedule
                /\ scheduleHistory' = PushHistory(scheduleHistory, schedule)
           ELSE UNCHANGED <<schedule, scheduleHistory>>
        /\ last' = Ran("scheduleRoundWithPush", res.outcome)
        /\ UNCHANGED <<courtCount, series>>

\* autoSchedule; a row search that finds no position never returns, so
\* nothing is committed.
autoSchedule ==
    LET res == autoScheduleResult(series, courtCount, schedule)
    IN  /\ IF res.outcome = "applied"
           THEN /\ schedule' = res.schedule
                /\ scheduleHistory' = PushHistory(scheduleHistory, schedule)
           ELSE UNCHANGED <<schedule, scheduleHistory>>
        /\ last' = Ran("autoSchedule", res.outcome)
        /\ UNCHANGED <<courtCount, series>>

\* canScheduleRound with the accepted placement committed by the validator.
canScheduleRound_Commits(roundId, row, col, excludeRoundId) ==
    LET res == canScheduleRoundResult(series, courtCount, schedule,
                                      roundId, row, col, excludeRoundId)
    IN  /\ last' = Ran("canScheduleRound", res.reason)
        /\ IF res.valid
           THEN /\ schedule' = scheduleRoundResult(schedule, roundId, row, col).schedule
                /\ scheduleHistory' = PushHistory(scheduleHistory, schedule)
           ELSE UNCHANGED <<schedule, scheduleHistory>>
        /\ UNCHANGED <<courtCount, series>>

\* canScheduleRound reads the state with get() and returns its verdict; it
\* never calls set().
canScheduleRound(roundId, row, col, excludeRoundId) ==
    LET res == canScheduleRoundResult(series, courtCount, schedule,
                                      roundId, row, col, excludeRoundId)
    IN  /\ last' = Ran("canScheduleRound", res.reason)
        /\ UNCHANGED <<courtCount, series, schedule, scheduleHistory>>

(***************************************************************************)
(* Configuration: rounds and series come and go.                           *)
(***************************************************************************)
\* Every round id the state mentions: in a series, in the schedule or in a
\* snapshot of the history.
IdsInUse(ser, sch, hist) ==
    RoundIds(ser) \cup {sr.roundId : sr \in Range(sch)}
        \cup UNION {{sr.roundId : sr \in Range(hist[k])} : k \in 1..Len(hist)}

\* generateId: a token no round has; the least unused one stands for any.
generateId(ser, sch, hist, sid) ==
    <<sid, Min({k \in 1..(Cardinality(IdsInUse(ser, sch, hist)) + 1) :
                   <<sid, k>> \notin IdsInUse(ser, sch, hist)})>>

\* series.map(s => s.id === seriesId ? {...s, rounds: [...s.rounds, newRound]} : s)
addRoundTo(ser, seriesId, matchCount, id) ==
    [i \in 1..Len(ser) |->
        IF ser[i].id = seriesId
        THEN [ser[i] EXCEPT !.rounds =
                 Append(@, [id |-> id, seriesId |-> seriesId,
                            roundNumber |-> Len(@) + 1, matchCount |-> matchCount])]
        ELSE ser[i]]

\* removeRound that keeps the numbers of the rounds that stay.
removeRoundFrom_KeepsNumbers(ser, seriesId, roundId) ==
    [i \in 1..Len(ser) |->
        IF ser[i].id = seriesId
        THEN [ser[i] EXCEPT !.rounds = SelectSeq(@, LAMBDA r : r.id # roundId)]
        ELSE ser[i]]

\* rounds.filter(r => r.id !== roundId).map((r, i) => ({...r, roundNumber: i + 1}))
removeRoundFrom(ser, seriesId, roundId) ==
    [i \in 1..Len(ser) |->
        IF ser[i].id = seriesId
        THEN LET kept == SelectSeq(ser[i].rounds, LAMBDA r : r.id # roundId)
             IN  [ser[i] EXCEPT !.rounds =
                     [n \in 1..Len(kept) |-> [kept[n] EXCEPT !.roundNumber = n]]]
        ELSE ser[i]]

addRound(seriesId, matchCount) ==
    /\ series' = addRoundTo(series, seriesId, matchCount,
                            generateId(series, schedule, scheduleHistory, seriesId))
    /\ last' = Ran("addRound", "applied")
    /\ UNCHANGED <<courtCount, schedule, scheduleHistory>>

removeRound(seriesId, roundId) ==
    /\ schedule' = SelectSeq(schedule, LAMBDA sr : sr.roundId # roundId)
    /\ series' = removeRoundFrom(series, seriesId, roundId)
    /\ last' = Ran("removeRound", "applied")
    /\ UNCHANGED <<courtCount, scheduleHistory>>

removeSeries(id) ==
    LET gone     == SelectSeq(series, LAMBDA s : s.id = id)
        roundIds == RoundIds(gone)
    IN  /\ series' = SelectSeq(series, LAMBDA s : s.id # id)
        /\ schedule' = SelectSeq(schedule, LAMBDA sr : sr.roundId \notin roundIds)
        /\ last' = Ran("removeSeries", "applied")
        /\ UNCHANGED <<courtCount, scheduleHistory>>

(***************************************************************************)
(* Spec: every schedule operation on a fixed configuration, from the       *)
(* initial state of the store.                                             *)
(***************************************************************************)
\* The n-th round added to series sid, of span mc; ids are unique tokens.
Round(sid, n, mc) ==
    [id |-> <<sid, n>>, seriesId |-> sid, roundNumber |-> n, matchCount |-> mc]

BaseSeries ==
    << [id |-> "A", name |-> 1,
        rounds |-> <<Round("A", 1, 2), Round("A", 2, 1)>>],
       [id |-> "B", name |-> 2,
        rounds |-> <<Round("B", 1, 3)>>] >>

\* Outside the scripted runs the bookkeeping stays idle.
NoRun == [phase |-> "free", trace |-> <<>>, script |-> <<>>, step |-> 0, undos |-> 0]

Init ==
    /\ courtCount = BaseCourtCount
    /\ series = BaseSeries
    /\ schedule = <<>>
    /\ scheduleHistory = <<>>
    /\ last = Ran("init", "applied")
    /\ run = NoRun

Rows == 0..MaxRow
Cols == 0..(courtCount - 1)

\* Spec issues an operation only while the history holds fewer than MaxHist
\* snapshots; undoSchedule is always offered.
Budget == Len(scheduleHistory) < MaxHist

DoScheduleRound ==
    \E r \in RoundIds(series), row \in Rows, col \in Cols :
        Budget /\ scheduleRound(r, row, col) /\ UNCHANGED run

DoMoveScheduledRound ==
    \E r \in RoundIds(series), row \in Rows, col \in Cols :
        Budget /\ moveScheduledRound(r, row, col) /\ UNCHANGED run

DoScheduleRoundWithPush ==
    \E r \in RoundIds(series), row \in Rows, col \in Cols :
        Budget /\ scheduleRoundWithPush(r, row, col) /\ UNCHANGED run

DoScheduleRoundNext ==
    \E r \in RoundIds(series) : Budget /\ scheduleRoundNext(r) /\ UNCHANGED run

DoUnscheduleRound ==
    \E r \in RoundIds(series) : Budget /\ unscheduleRound(r) /\ UNCHANGED run

DoRemoveEmptyCell ==
    \E row \in Rows, col \in Cols : Budget /\ removeEmptyCell(row, col) /\ UNCHANGED run

DoClearSchedule == Budget /\ clearSchedule /\ UNCHANGED run

DoAutoSchedule == Budget /\ autoSchedule /\ UNCHANGED run

DoUndoSchedule == undoSchedule /\ UNCHANGED run

Next ==
    \/ DoScheduleRound
    \/ DoMoveScheduledRound
    \/ DoScheduleRoundWithPush
    \/ DoScheduleRoundNext
    \/ DoUnscheduleRound
    \/ DoRemoveEmptyCell
    \/ DoClearSchedule
    \/ DoAutoSchedule
    \/ DoUndoSchedule

Spec == Init /\ [][Next]_vars

(***************************************************************************)
(* SpecUI: the operations the schedule screen issues (no direct            *)
(* scheduleRound, no moveScheduledRound), on the same configuration.       *)
(***************************************************************************)
NextUI ==
    \/ DoScheduleRoundWithPush
    \/ DoScheduleRoundNext
    \/ DoUnscheduleRound
    \/ DoRemoveEmptyCell
    \/ DoClearSchedule
    \/ DoAutoSchedule
    \/ DoUndoSchedule

SpecUI == Init /\ [][NextUI]_vars

(***************************************************************************)
(* SpecUndo: scripted runs that reach the history cap.  A run alternates   *)
(* two kinds of operation chosen at the start, with arguments that follow  *)
(* from the step number, records every schedule it produces, and then      *)
(* only undoes.                                                            *)
(***************************************************************************)
\* The store actions that push the history when they apply.
MutatingOps ==
    {"scheduleRound", "scheduleRoundWithPush", "scheduleRoundNext", "moveScheduledRound",
     "unscheduleRound", "clearSchedule", "removeEmptyCell", "autoSchedule"}

ScriptOps == MutatingOps

InitUndo ==
    /\ courtCount = BaseCourtCount
    /\ series = BaseSeries
    /\ schedule = <<>>
    /\ scheduleHistory = <<>>
    /\ last = Ran("init", "applied")
    /\ \E k1 \in ScriptOps, k2 \in ScriptOps :
           run = [phase |-> "mutate", trace |-> << <<>> >>, script |-> <<k1, k2>>,
                  step |-> 0, undos |-> 0]

\* The arguments of the operation issued at the current step.
ScriptRound == AllRounds(series)[(run.step % Len(AllRounds(series))) + 1].id
ScriptCell ==
    indexToPos((run.step + (run.step \div Len(AllRounds(series))))
                   % ((MaxRow + 1) * courtCount), courtCount)

\* The run issues operation kind `op` now.
Scripted(op) ==
    /\ run.phase = "mutate"
    /\ run.step < MaxOps
    /\ run.script[(run.step % 2) + 1] = op

\* The run records the schedule an applied operation produced.
Recorded ==
    run' = [run EXCEPT !.step = @ + 1,
                       !.trace = IF last'.outcome = "applied"
                                 THEN Append(@, schedule') ELSE @]

RunScheduleRound ==
    Scripted("scheduleRound")
    /\ scheduleRound(ScriptRound, ScriptCell.row, ScriptCell.col) /\ Recorded

RunMoveScheduledRound ==
    Scripted("moveScheduledRound")
    /\ moveScheduledRound(ScriptRound, ScriptCell.row, ScriptCell.col) /\ Recorded

RunScheduleRoundWithPush ==
    Scripted("scheduleRoundWithPush")
    /\ scheduleRoundWithPush(ScriptRound, ScriptCell.row, ScriptCell.col) /\ Recorded

RunScheduleRoundNext ==
    Scripted("scheduleRoundNext") /\ scheduleRoundNext(ScriptRound) /\ Recorded

RunUnscheduleRound ==
    Scripted("unscheduleRound") /\ unscheduleRound(ScriptRound) /\ Recorded

RunRemoveEmptyCell ==
    Scripted("removeEmptyCell")
    /\ removeEmptyCell(ScriptCell.row, ScriptCell.col) /\ Recorded

RunClearSchedule == Scripted("clearSchedule") /\ clearSchedule /\ Recorded

RunAutoSchedule == Scripted("autoSchedule") /\ autoSchedule /\ Recorded

\* Undo is issued once more than the run has snapshots to give back.
RunUndoSchedule ==
    /\ run.phase \in {"mutate", "undo"}
    /\ run.undos < Len(run.trace)
    /\ undoSchedule
    /\ run' = [run EXCEPT !.phase = "undo", !.undos = @ + 1]

NextUndo ==
    \/ RunScheduleRound
    \/ RunMoveScheduledRound
    \/ RunScheduleRoundWithPush
    \/ RunScheduleRoundNext
    \/ RunUnscheduleRound
    \/ RunRemoveEmptyCell
    \/ RunClearSchedule
    \/ RunAutoSchedule
    \/ RunUndoSchedule

SpecUndo == InitUndo /\ [][NextUndo]_vars

(***************************************************************************)
(* SpecAuto: autoSchedule on every configuration of two series within the  *)
(* bounds, as the first or second operation, after an optional             *)
(* scheduleRoundNext.                                                      *)
(***************************************************************************)
SpanLists == UNION {[1..k -> 1..MaxSpan] : k \in 0..MaxRounds}

SeriesWith(sid, name, spans) ==
    [id |-> sid, name |-> name,
     rounds |-> [i \in 1..Len(spans) |-> Round(sid, i, spans[i])]]

\* The names of the two series: equal, in list order, or in reverse order.
NamePairs == {<<1, 1>>, <<1, 2>>, <<2, 1>>}

InitAuto ==
    /\ courtCount \in 1..MaxCourts
    /\ \E names \in NamePairs, sa \in SpanLists, sb \in SpanLists :
           series = <<SeriesWith("A", names[1], sa), SeriesWith("B", names[2], sb)>>
    /\ schedule = <<>>
    /\ scheduleHistory = <<>>
    /\ last = Ran("init", "applied")
    /\ run = NoRun

DoFirstScheduleRoundNext ==
    \E r \in RoundIds(series) :
        Len(scheduleHistory) = 0 /\ scheduleRoundNext(r) /\ UNCHANGED run

DoEarlyAutoSchedule == Len(scheduleHistory) <= 1 /\ autoSchedule /\ UNCHANGED run

NextAuto ==
    \/ DoEarlyAutoSchedule
    \/ DoFirstScheduleRoundNext

SpecAuto == InitAuto /\ [][NextAuto]_vars

(***************************************************************************)
(* SpecGrid: one round of every span on every court count within the       *)
(* bounds, dropped on a cell of the empty grid, followed by one            *)
(* removeEmptyCell.                                                        *)
(***************************************************************************)
InitGrid ==
    /\ courtCount \in 1..MaxLanes
    /\ \E span \in 1..MaxGridSpan : series = <<SeriesWith("A", 1, <<span>>)>>
    /\ schedule = <<>>
    /\ scheduleHistory = <<>>
    /\ last = Ran("init", "applied")
    /\ run = NoRun

DoFirstScheduleRoundWithPush ==
    \E r \in RoundIds(series), row \in Rows, col \in Cols :
        Len(scheduleHistory) = 0 /\ scheduleRoundWithPush(r, row, col) /\ UNCHANGED run

DoSecondRemoveEmptyCell ==
    \E row \in Rows, col \in Cols :
        Len(scheduleHistory) = 1 /\ removeEmptyCell(row, col) /\ UNCHANGED run

NextGrid ==
    \/ DoFirstScheduleRoundWithPush
    \/ DoSecondRemoveEmptyCell

SpecGrid == InitGrid /\ [][NextGrid]_vars

(***************************************************************************)
(* SpecCan: canScheduleRound asked about every round, cell and excluded    *)
(* round, on the schedules that up to two scheduleRound or autoSchedule    *)
(* build on the configuration of Spec.                                     *)
(***************************************************************************)
\* The values of excludeRoundId: a round, or none.
Excludes == RoundIds(series) \cup {NoExclude}

DoCanScheduleRound ==
    \E r \in RoundIds(series), row \in Rows, col \in Cols, ex \in Excludes :
        canScheduleRound(r, row, col, ex) /\ UNCHANGED run

DoEarlyScheduleRound ==
    \E r \in RoundIds(series), row \in Rows, col \in Cols :
        Len(scheduleHistory) <= 1 /\ scheduleRound(r, row, col) /\ UNCHANGED run

NextCan ==
    \/ DoEarlyScheduleRound
    \/ DoEarlyAutoSchedule
    \/ DoCanScheduleRound

SpecCan == Init /\ [][NextCan]_vars

(***************************************************************************)
(* SpecIds: the operations that take a round id, called with the ids of    *)
(* the rounds and with an id that belongs to no series, as the first two   *)
(* mutations of the configuration of Spec.                                 *)
(***************************************************************************)
\* A round id that belongs to no series.
UnknownId == <<"Z", 1>>

AnyIds == RoundIds(series) \cup {UnknownId}

DoIdScheduleRound ==
    \E r \in AnyIds, row \in Rows, col \in Cols :
        Len(scheduleHistory) <= 1 /\ scheduleRound(r, row, col) /\ UNCHANGED run

DoIdMoveScheduledRound ==
    \E r \in AnyIds, row \in Rows, col \in Cols :
        Len(scheduleHistory) <= 1 /\ moveScheduledRound(r, row, col) /\ UNCHANGED run

DoIdUnscheduleRound ==
    \E r \in AnyIds :
        Len(scheduleHistory) <= 1 /\ unscheduleRound(r) /\ UNCHANGED run

DoIdScheduleRoundWithPush ==
    \E r \in AnyIds, row \in Rows, col \in Cols :
        Len(scheduleHistory) <= 1 /\ scheduleRoundWithPush(r, row, col) /\ UNCHANGED run

DoIdScheduleRoundNext ==
    \E r \in AnyIds :
        Len(scheduleHistory) <= 1 /\ scheduleRoundNext(r) /\ UNCHANGED run

DoIdCanScheduleRound ==
    \E row \in Rows, col \in Cols, ex \in Excludes :
        canScheduleRound(UnknownId, row, col, ex) /\ UNCHANGED run

NextIds ==
    \/ DoIdScheduleRound
    \/ DoIdMoveScheduledRound
    \/ DoIdUnscheduleRound
    \/ DoIdScheduleRoundWithPush
    \/ DoIdScheduleRoundNext
    \/ DoIdCanScheduleRound

SpecIds == Init /\ [][NextIds]_vars

(***************************************************************************)
(* SpecConfig: rounds are added and removed, series are removed, and the   *)
(* rounds are placed in between.                                           *)
(***************************************************************************)
SeriesIds == {series[i].id : i \in 1..Len(series)}

\* A round is added to the first series while it has no more rounds than it
\* started with.
DoAddRound ==
    \E mc \in {1, MaxSpan} :
        /\ series # <<>>
        /\ Len(series[1].rounds) <= Len(BaseSeries[1].rounds)
        /\ addRound(series[1].id, mc)
        /\ UNCHANGED run

DoRemoveRound ==
    \E sid \in SeriesIds, r \in RoundIds(series) : removeRound(sid, r) /\ UNCHANGED run

DoRemoveSeries == \E sid \in SeriesIds : removeSeries(sid) /\ UNCHANGED run

DoFirstAutoSchedule == Len(scheduleHistory) = 0 /\ autoSchedule /\ UNCHANGED run

NextConfig ==
    \/ DoAddRound
    \/ DoRemoveRound
    \/ DoRemoveSeries
    \/ DoFirstAutoSchedule

SpecConfig == Init /\ [][NextConfig]_vars

(***************************************************************************)
(* SpecRemoval: rounds that exist are placed, by hand, by push, on the     *)
(* next free cell or automatically; rounds and series are removed; the     *)
(* placements are undone.                                                  *)
(***************************************************************************)
DoEarlyScheduleRoundWithPush ==
    \E r \in RoundIds(series), row \in Rows, col \in Cols :
        Len(scheduleHistory) <= 1 /\ scheduleRoundWithPush(r, row, col) /\ UNCHANGED run

DoEarlyScheduleRoundNext ==
    \E r \in RoundIds(series) :
        Len(scheduleHistory) <= 1 /\ scheduleRoundNext(r) /\ UNCHANGED run

NextRemoval ==
    \/ DoEarlyScheduleRound
    \/ DoEarlyScheduleRoundWithPush
    \/ DoEarlyScheduleRoundNext
    \/ DoEarlyAutoSchedule
    \/ DoRemoveRound
    \/ DoRemoveSeries
    \/ DoUndoSchedule

SpecRemoval == Init /\ [][NextRemoval]_vars

(***************************************************************************)
(* SpecPush: two placements, unvalidated or automatic, then a push onto    *)
(* whatever they left, schedules with shared cells included.               *)
(***************************************************************************)
DoThirdScheduleRoundWithPush ==
    \E r \in RoundIds(series), row \in Rows, col \in Cols :
        Len(scheduleHistory) = 2 /\ scheduleRoundWithPush(r, row, col) /\ UNCHANGED run

NextPush ==
    \/ DoEarlyScheduleRound
    \/ DoEarlyAutoSchedule
    \/ DoThirdScheduleRoundWithPush

SpecPush == Init /\ [][NextPush]_vars

(***************************************************************************)
(* SpecGated: a caller that places a round only where canScheduleRound     *)
(* answers valid, and unschedules and undoes.                              *)
(***************************************************************************)
\* One court more than the widest round needs, so that two series can share
\* a row.
InitGated ==
    /\ courtCount = BaseCourtCount + 1
    /\ series = BaseSeries
    /\ schedule = <<>>
    /\ scheduleHistory = <<>>
    /\ last = Ran("init", "applied")
    /\ run = NoRun

\* The caller goes on while the history is short.
GatedBudget == Len(scheduleHistory) <= 3

DoGatedScheduleRound ==
    \E r \in RoundIds(series), row \in Rows, col \in Cols :
        /\ GatedBudget
        /\ canScheduleRoundResult(series, courtCount, schedule, r, row, col, NoExclude).valid
        /\ scheduleRound(r, row, col)
        /\ UNCHANGED run

DoGatedUnscheduleRound ==
    \E r \in RoundIds(series) : GatedBudget /\ unscheduleRound(r) /\ UNCHANGED run

NextGated ==
    \/ DoGatedScheduleRound
    \/ DoGatedUnscheduleRound
    \/ DoUndoSchedule

SpecGated == InitGated /\ [][NextGated]_vars

(***************************************************************************)
(* SpecScreen: the operations of the schedule screen, three in a row with  *)
(* undo in between, on 1 to MaxCourts courts, so that the rounds of        *)
(* BaseSeries wrap over rows.                                              *)
(***************************************************************************)
InitScreen ==
    /\ courtCount \in 1..MaxCourts
    /\ series = BaseSeries
    /\ schedule = <<>>
    /\ scheduleHistory = <<>>
    /\ last = Ran("init", "applied")
    /\ run = NoRun

ScreenBudget == Len(scheduleHistory) <= 2

DoScreenScheduleRoundWithPush ==
    \E r \in RoundIds(series), row \in Rows, col \in Cols :
        ScreenBudget /\ scheduleRoundWithPush(r, row, col) /\ UNCHANGED run

DoScreenScheduleRoundNext ==
    \E r \in RoundIds(series) : ScreenBudget /\ scheduleRoundNext(r) /\ UNCHANGED run

DoScreenUnscheduleRound ==
    \E r \in RoundIds(series) : ScreenBudget /\ unscheduleRound(r) /\ UNCHANGED run

DoScreenRemoveEmptyCell ==
    \E row \in Rows, col \in Cols :
        ScreenBudget /\ removeEmptyCell(row, col) /\ UNCHANGED run

DoScreenClearSchedule == ScreenBudget /\ clearSchedule /\ UNCHANGED run

DoScreenAutoSchedule == ScreenBudget /\ autoSchedule /\ UNCHANGED run

NextScreen ==
    \/ DoScreenScheduleRoundWithPush
    \/ DoScreenScheduleRoundNext
    \/ DoScreenUnscheduleRound
    \/ DoScreenRemoveEmptyCell
    \/ DoScreenClearSchedule
    \/ DoScreenAutoSchedule
    \/ DoUndoSchedule

SpecScreen == InitScreen /\ [][NextScreen]_vars

(***************************************************************************)
(* Vocabulary of the properties.                                           *)
(***************************************************************************)
\* The span of the round an entry places.
SpanOf(ser, sr) == FindRound(ser, sr.roundId).matchCount

\* The footprint of span cells from (row, col), by linear index.
FootprintCells(row, col, span, cc) ==
    {[row |-> (row * cc + col + k) \div cc, col |-> (row * cc + col + k) % cc] :
        k \in 0..(span - 1)}

CellsOf(ser, cc, sr) == FootprintCells(sr.row, sr.startCol, SpanOf(ser, sr), cc)

\* No cell belongs to the footprints of two entries.
NoSharedCell(ser, cc, sch) ==
    \A i, j \in 1..Len(sch) :
        i < j => CellsOf(ser, cc, sch[i]) \cap CellsOf(ser, cc, sch[j]) = {}

SameSeries(ser, a, b) == SeriesOf(ser, a.roundId) = SeriesOf(ser, b.roundId)

\* No row is the start row of two rounds of one series.
SeriesRowExclusive(ser, sch) ==
    \A i, j \in 1..Len(sch) :
        (i < j /\ SameSeries(ser, sch[i], sch[j])) => sch[i].row # sch[j].row

\* Same-series rounds start on rows ordered as their round numbers.
RowsFollowRoundNumbers(ser, sch) ==
    \A i, j \in 1..Len(sch) :
        (/\ SameSeries(ser, sch[i], sch[j])
         /\ FindRound(ser, sch[i].roundId).roundNumber
                < FindRound(ser, sch[j].roundId).roundNumber)
        => sch[i].row <= sch[j].row

UnvalidatedOps == {"scheduleRound", "moveScheduledRound"}

(***************************************************************************)
(* C1.  Claimed: after any sequence of operations, scheduleRound and       *)
(* moveScheduledRound included, no cell belongs to two footprints.         *)
(***************************************************************************)
C1_NoSharedCellAfterAnyOperation == NoSharedCell(series, courtCount, schedule)

\* The schedule and every snapshot of the history are free of shared cells.
OverlapFree ==
    /\ NoSharedCell(series, courtCount, schedule)
    /\ \A k \in 1..Len(scheduleHistory) :
           NoSharedCell(series, courtCount, scheduleHistory[k])

\* C1, amended: every operation other than scheduleRound and
\* moveScheduledRound (scheduleRoundWithPush, scheduleRoundNext,
\* unscheduleRound, clearSchedule, removeEmptyCell, autoSchedule,
\* undoSchedule) keeps the schedule and the history free of shared cells, so
\* from the empty schedule these operations never make two footprints share
\* a cell.
C1_ValidatedOperationsKeepCellsDisjoint ==
    [][(OverlapFree /\ last'.op \notin UnvalidatedOps) => OverlapFree']_vars

\* A push that moved rounds, on a schedule of at least three rounds.
C1_Witness ==
    /\ last = Ran("scheduleRoundWithPush", "applied")
    /\ Len(schedule) >= 3
    /\ Len(scheduleHistory) >= 1
    /\ \E i \in 1..Len(schedule) :
           \E j \in 1..Len(scheduleHistory[Len(scheduleHistory)]) :
               /\ scheduleHistory[Len(scheduleHistory)][j].roundId = schedule[i].roundId
               /\ scheduleHistory[Len(scheduleHistory)][j] # schedule[i]
    /\ OverlapFree

(***************************************************************************)
(* C2.  Claimed: after any sequence of the operations the screen issues,   *)
(* no row holds two rounds of the same series.                             *)
(***************************************************************************)
C2_SeriesRowExclusive == SeriesRowExclusive(series, schedule)

(***************************************************************************)
(* C3.  Claimed: after any sequence of the operations the screen issues,   *)
(* of two rounds of a series the one with the smaller round number starts  *)
(* on a row less than or equal to the other's.                             *)
(***************************************************************************)
C3_RowsFollowRoundNumbers == RowsFollowRoundNumbers(series, schedule)

(***************************************************************************)
(* C4.  The schedule holds at most one entry per round id, in every state  *)
(* reachable by the engine operations.                                     *)
(***************************************************************************)
C4_OneEntryPerRound ==
    \A i, j \in 1..Len(schedule) :
        schedule[i].roundId = schedule[j].roundId => i = j

\* scheduleRound has re-placed a round that already had an entry elsewhere.
C4_Witness ==
    /\ last = Ran("scheduleRound", "applied")
    /\ Len(scheduleHistory) >= 1
    /\ Len(schedule) >= 2
    /\ \E j \in 1..Len(scheduleHistory[Len(scheduleHistory)]) :
           /\ scheduleHistory[Len(scheduleHistory)][j].roundId
                  = schedule[Len(schedule)].roundId
           /\ scheduleHistory[Len(scheduleHistory)][j] # schedule[Len(schedule)]

(***************************************************************************)
(* C5.  A scheduleRoundWithPush whose target footprint covers some but not *)
(* all cells of another scheduled round is rejected: the schedule and the  *)
(* history stay exactly as they were, the prior entry of the placed round  *)
(* included.                                                               *)
(***************************************************************************)
\* The target footprint of round r at (row, col) splits another entry.
SplitsARound(r, row, col) ==
    \E i \in 1..Len(schedule) :
        LET mine   == CellsOf(series, courtCount, schedule[i])
            target == FootprintCells(row, col, FindRound(series, r).matchCount, courtCount)
        IN  /\ schedule[i].roundId # r
            /\ mine \cap target # {}
            /\ mine \cap target # mine

C5_SplittingPushChangesNothing ==
    [][last'.op = "scheduleRoundWithPush" =>
          \A r \in RoundIds(series), row \in Rows, col \in Cols :
              (SplitsARound(r, row, col) /\ scheduleRoundWithPush(r, row, col))
              => UNCHANGED <<schedule, scheduleHistory>>]_vars

\* A push was rejected for cutting through a round while every round, the
\* pushed one included, had an entry.
C5_Witness ==
    /\ last = Ran("scheduleRoundWithPush", "middle")
    /\ {schedule[i].roundId : i \in 1..Len(schedule)} = RoundIds(series)
    /\ Len(scheduleHistory) >= 1

(***************************************************************************)
(* C6.  undoSchedule right after one successful mutating operation gives   *)
(* back the schedule and the history that operation started from, provided *)
(* the history held fewer than 20 snapshots.                               *)
(***************************************************************************)
C6_UndoRestoresStateBeforeOperation ==
    [][(/\ last'.op \in MutatingOps
        /\ last'.outcome = "applied"
        /\ Len(scheduleHistory) < 20)
       => /\ undoScheduleResult(scheduleHistory', schedule').outcome = "applied"
          /\ undoScheduleResult(scheduleHistory', schedule').schedule = schedule
          /\ undoScheduleResult(scheduleHistory', schedule').history = scheduleHistory]_vars

\* undoSchedule has brought back a schedule that an operation had changed.
C6_Witness ==
    /\ last = Ran("undoSchedule", "applied")
    /\ schedule # <<>>
    /\ Len(scheduleHistory) >= 1

(***************************************************************************)
(* C7.  The history never holds more than 20 snapshots, and a push onto a  *)
(* history of 20 drops the oldest snapshot, keeps the other 19 in order    *)
(* and puts the pre-call schedule last.                                    *)
(***************************************************************************)
C7_HistoryCappedAtTwenty ==
    [][/\ Len(scheduleHistory') <= 20
       /\ (/\ Len(scheduleHistory) = 20
           /\ last'.op \in MutatingOps
           /\ last'.outcome = "applied")
          => /\ Len(scheduleHistory') = 20
             /\ \A k \in 1..19 : scheduleHistory'[k] = scheduleHistory[k + 1]
             /\ scheduleHistory'[20] = schedule]_vars

\* A snapshot has been pushed onto a full history and the oldest one is gone.
C7_Witness ==
    /\ run.phase = "mutate"
    /\ Len(run.trace) >= 22
    /\ Len(scheduleHistory) = 20
    /\ last.op \in MutatingOps /\ last.outcome = "applied"
    /\ scheduleHistory[1] = run.trace[Len(run.trace) - 20]
    /\ scheduleHistory[1] # scheduleHistory[2]

(***************************************************************************)
(* C8.  After n applied operations S0 -> ... -> Sn, k undos give S(n-k)    *)
(* for k <= min(n, 20); at most 20 undos take effect, further ones change  *)
(* nothing, so with n >= 21 the snapshot S0 is never given back.           *)
(***************************************************************************)
\* The undos of the run that took effect.
EffectiveUndos ==
    LET n == Len(run.trace) - 1
        m == IF n < 20 THEN n ELSE 20
    IN  IF run.undos < m THEN run.undos ELSE m

C8_UndosWalkBackThroughTheRun ==
    run.phase = "undo" =>
        LET n == Len(run.trace) - 1
        IN  /\ schedule = run.trace[n - EffectiveUndos + 1]
            /\ Len(scheduleHistory) = (IF n < 20 THEN n ELSE 20) - EffectiveUndos
            /\ (n >= 21 => n - EffectiveUndos + 1 > 1)

\* A run of at least 21 applied operations, undone 21 times: the last undo
\* found the history empty and the schedule is S(n-20), not S0.
C8_Witness ==
    /\ run.phase = "undo"
    /\ Len(run.trace) - 1 >= 21
    /\ run.undos = 21
    /\ last = Ran("undoSchedule", "empty")
    /\ schedule = run.trace[Len(run.trace) - 20]
    /\ schedule # run.trace[1]

(***************************************************************************)
(* C9.  In the schedule autoSchedule produces, no row holds footprint      *)
(* cells of two rounds of one series, and a round of a series starts on a  *)
(* row strictly greater than every row spanned by the rounds of the series *)
(* with a smaller round number.                                            *)
(***************************************************************************)
RowsOf(ser, cc, sr) == {p.row : p \in CellsOf(ser, cc, sr)}

C9_AutoScheduleSeparatesAndOrdersSeries ==
    last = Ran("autoSchedule", "applied") =>
        \A i, j \in 1..Len(schedule) :
            (i # j /\ SameSeries(series, schedule[i], schedule[j])) =>
                /\ RowsOf(series, courtCount, schedule[i])
                       \cap RowsOf(series, courtCount, schedule[j]) = {}
                /\ FindRound(series, schedule[i].roundId).roundNumber
                       < FindRound(series, schedule[j].roundId).roundNumber
                   => \A row \in RowsOf(series, courtCount, schedule[i]) :
                          schedule[j].row > row

\* autoSchedule has placed two rounds of a series that comes second by name,
\* the first of them wrapping onto a second row.
C9_Witness ==
    /\ last = Ran("autoSchedule", "applied")
    /\ \E i, j \in 1..Len(schedule) :
           /\ i # j
           /\ SameSeries(series, schedule[i], schedule[j])
           /\ Cardinality(RowsOf(series, courtCount, schedule[i])) >= 2
           /\ schedule[i].startCol > 0
           /\ schedule[i].row < schedule[j].row
    /\ Len(schedule) >= 3

(***************************************************************************)
(* C10.  autoSchedule replaces the schedule by one entry for every round   *)
(* of every series and nothing else, with no cell shared by two            *)
(* footprints, and pushes the previous schedule onto the history.          *)
(***************************************************************************)
C10_AutoSchedulePlacesEveryRoundOnce ==
    [][(last'.op = "autoSchedule" /\ last'.outcome = "applied") =>
          /\ {schedule'[i].roundId : i \in 1..Len(schedule')} = RoundIds(series)
          /\ Len(schedule') = Cardinality(RoundIds(series))
          /\ NoSharedCell(series, courtCount, schedule')
          /\ scheduleHistory' = Append(scheduleHistory, schedule)]_vars

\* autoSchedule has replaced a schedule that held a round somewhere else.
C10_Witness ==
    /\ last = Ran("autoSchedule", "applied")
    /\ Len(schedule) >= 3
    /\ Len(scheduleHistory) = 2
    /\ Len(scheduleHistory[2]) = 1
    /\ \A i \in 1..Len(schedule) : schedule[i] # scheduleHistory[2][1]
    /\ \E i \in 1..Len(schedule) : Cardinality(CellsOf(series, courtCount, schedule[i])) >= 2

(***************************************************************************)
(* C11.  The footprint of a round of span s placed at (row, col), with     *)
(* 0 <= col < courtCount, is the list of exactly s cells whose linear      *)
(* indices are row * courtCount + col, + 1, ..., + s - 1, each converted   *)
(* back by (i div courtCount, i mod courtCount); with 8 courts a round of  *)
(* span 4 at (0, 6) occupies (0,6), (0,7), (1,0), (1,1).                   *)
(***************************************************************************)
\* The cells of linear indices first, first + 1, ..., first + span - 1.
LinearWalk(first, span, cc) ==
    [k \in 1..span |-> [row |-> (first + k - 1) \div cc, col |-> (first + k - 1) % cc]]

C11_FootprintFollowsLinearIndex ==
    \A i \in 1..Len(schedule) :
        LET sr   == schedule[i]
            span == SpanOf(series, sr)
            cells == getRoundCellPositions(sr.row, sr.startCol, span, courtCount)
        IN  /\ Len(cells) = span
            /\ cells = LinearWalk(sr.row * courtCount + sr.startCol, span, courtCount)
            /\ (courtCount = 8 /\ span = 4 /\ sr.row = 0 /\ sr.startCol = 6)
                   => cells = << [row |-> 0, col |-> 6], [row |-> 0, col |-> 7],
                                 [row |-> 1, col |-> 0], [row |-> 1, col |-> 1] >>

\* A round of span 4 has been dropped on (0, 6) of a grid of 8 courts.
C11_Witness ==
    /\ courtCount = 8
    /\ last = Ran("scheduleRoundWithPush", "applied")
    /\ Len(schedule) = 1
    /\ schedule[1].row = 0 /\ schedule[1].startCol = 6
    /\ SpanOf(series, schedule[1]) = 4

(***************************************************************************)
(* C12.  removeEmptyCell on a cell of linear index i that no footprint     *)
(* covers moves every round that started after i back by one cell (start   *)
(* index minus 1, converted back to row and column), leaves the entry of   *)
(* every round that started at or before i as it was, adds and removes no  *)
(* entry, and pushes the pre-call schedule onto the history.               *)
(***************************************************************************)
\* No footprint of the schedule covers the cell.
CellFree(row, col) ==
    \A i \in 1..Len(schedule) :
        [row |-> row, col |-> col] \notin CellsOf(series, courtCount, schedule[i])

\* The step took every entry that started after index i one cell back and
\* kept the others.
CompactedAfter(i) ==
    /\ Len(schedule') = Len(schedule)
    /\ \A k \in 1..Len(schedule) :
           LET old      == schedule[k]
               oldStart == old.row * courtCount + old.startCol
               newStart == IF oldStart > i THEN oldStart - 1 ELSE oldStart
           IN  \E j \in 1..Len(schedule') :
                   schedule'[j] = [roundId  |-> old.roundId,
                                   row      |-> newStart \div courtCount,
                                   startCol |-> newStart % courtCount]
    /\ \A j \in 1..Len(schedule') :
           \E k \in 1..Len(schedule) : schedule'[j].roundId = schedule[k].roundId
    /\ scheduleHistory' = Append(scheduleHistory, schedule)

C12_CompactShiftsLaterRoundsBackByOne ==
    [][last'.op = "removeEmptyCell" =>
          \A row \in Rows, col \in Cols :
              (CellFree(row, col) /\ removeEmptyCell(row, col))
              => (last'.outcome = "applied" /\ CompactedAfter(row * courtCount + col))]_vars

\* The schedule before the last operation.
Previous == scheduleHistory[Len(scheduleHistory)]

\* removeEmptyCell has taken one round from the start of a row to the end of
\* the row before, another round one column back, and has left a third alone.
C12_Witness ==
    /\ last = Ran("removeEmptyCell", "applied")
    /\ Len(scheduleHistory) >= 1
    /\ Len(schedule) >= 3
    /\ \E i, j \in 1..Len(schedule) :
           /\ schedule[i].roundId = Previous[j].roundId
           /\ Previous[j].startCol = 0
           /\ schedule[i].row = Previous[j].row - 1
           /\ schedule[i].startCol = courtCount - 1
    /\ \E i, j \in 1..Len(schedule) :
           /\ schedule[i].roundId = Previous[j].roundId
           /\ schedule[i].row = Previous[j].row
           /\ schedule[i].startCol = Previous[j].startCol - 1
    /\ \E i \in 1..Len(schedule) : schedule[i] \in Range(Previous)

(***************************************************************************)
(* C13.  removeEmptyCell on a cell that belongs to the footprint of a      *)
(* scheduled round, a cell the round reaches by wrapping onto a later row  *)
(* included, changes neither the schedule nor the history.                 *)
(***************************************************************************)
C13_CompactOnCoveredCellChangesNothing ==
    [][last'.op = "removeEmptyCell" =>
          \A row \in Rows, col \in Cols :
              (~CellFree(row, col) /\ removeEmptyCell(row, col))
              => UNCHANGED <<schedule, scheduleHistory>>]_vars

\* removeEmptyCell was refused on a schedule whose only covered cells on the
\* last offered row are cells a round wraps onto, one round starting after
\* them.
C13_Witness ==
    /\ last = Ran("removeEmptyCell", "occupied")
    /\ Len(schedule) = 1
    /\ schedule[1].row < MaxRow
    /\ MaxRow \in RowsOf(series, courtCount, schedule[1])

(***************************************************************************)
(* C14.  A scheduleRoundWithPush whose target footprint meets no footprint *)
(* of another scheduled round yields the previous schedule without the     *)
(* round's old entry and with the entry (roundId, row, col); the entries   *)
(* of the other rounds are unchanged and the pre-call schedule is pushed   *)
(* onto the history.                                                       *)
(***************************************************************************)
\* The footprint of round r at (row, col) meets no footprint of another round.
TargetIsClear(r, row, col) ==
    \A i \in 1..Len(schedule) :
        schedule[i].roundId # r =>
            CellsOf(series, courtCount, schedule[i])
                \cap FootprintCells(row, col, FindRound(series, r).matchCount, courtCount) = {}

\* The step replaced the entry of round r by (r, row, col) and nothing else.
PlacedAlone(r, row, col) ==
    /\ Range(schedule') =
           {sr \in Range(schedule) : sr.roundId # r}
               \cup {[roundId |-> r, row |-> row, startCol |-> col]}
    /\ Len(schedule') = Cardinality({i \in 1..Len(schedule) : schedule[i].roundId # r}) + 1
    /\ scheduleHistory' = Append(scheduleHistory, schedule)

C14_PushOntoClearCellsMovesNothingElse ==
    [][last'.op = "scheduleRoundWithPush" =>
          \A r \in RoundIds(series), row \in Rows, col \in Cols :
              (TargetIsClear(r, row, col) /\ scheduleRoundWithPush(r, row, col))
              => (last'.outcome = "applied" /\ PlacedAlone(r, row, col))]_vars

\* A push has placed a round on clear cells in front of a round that stayed
\* where it was.
C14_Witness ==
    /\ last = Ran("scheduleRoundWithPush", "applied")
    /\ Len(scheduleHistory) >= 1
    /\ Len(schedule) >= 2
    /\ schedule[Len(schedule)] \notin Range(Previous)
    /\ \E j \in 1..(Len(schedule) - 1) :
           /\ schedule[j] \in Range(Previous)
           /\ schedule[j].row * courtCount + schedule[j].startCol
                  > schedule[Len(schedule)].row * courtCount + schedule[Len(schedule)].startCol
    /\ NoSharedCell(series, courtCount, schedule)

(***************************************************************************)
(* C15.  canScheduleRound answers invalid, for want of consecutive courts, *)
(* whenever the round exists and col + span - 1 >= courtCount, whatever    *)
(* the schedule holds; so a placement it accepts lies on one row.          *)
(***************************************************************************)
\* The verdict of canScheduleRound in the current state.
Verdict(r, row, col, ex) ==
    canScheduleRoundResult(series, courtCount, schedule, r, row, col, ex)

C15_TooFewCourtsIsInvalid ==
    \A r \in RoundIds(series), row \in Rows, col \in Cols, ex \in Excludes :
        LET span == FindRound(series, r).matchCount
        IN  /\ col + span - 1 >= courtCount
                   => Verdict(r, row, col, ex) = [valid |-> FALSE, reason |-> "courts"]
            /\ Verdict(r, row, col, ex).valid
                   => \A p \in FootprintCells(row, col, span, courtCount) : p.row = row

\* canScheduleRound has refused a round for want of courts while the grid
\* held other rounds.
C15_Witness ==
    /\ last = Ran("canScheduleRound", "courts")
    /\ Len(schedule) >= 2

(***************************************************************************)
(* C16.  Claimed: canScheduleRound answers invalid whenever one of the     *)
(* cells (row, col), ..., (row, col + span - 1) lies in the footprint of a *)
(* scheduled round other than the round and the excluded one, also when    *)
(* that round started on an earlier row and wrapped onto this one.         *)
(***************************************************************************)
C16_CoveredTargetCellIsInvalid ==
    \A r \in RoundIds(series), row \in Rows, col \in Cols, ex \in Excludes :
        (\E c \in col..(col + FindRound(series, r).matchCount - 1) :
            \E i \in 1..Len(schedule) :
                /\ schedule[i].roundId \notin {r, ex}
                /\ [row |-> row, col |-> c] \in CellsOf(series, courtCount, schedule[i]))
        => ~Verdict(r, row, col, ex).valid

(***************************************************************************)
(* C17.  Claimed: canScheduleRound answers invalid whenever another round  *)
(* of the same series, other than the round and the excluded one, has a    *)
(* footprint cell on the target row, whether it starts on that row or      *)
(* wraps onto it.                                                          *)
(***************************************************************************)
C17_SeriesOnTargetRowIsInvalid ==
    \A r \in RoundIds(series), row \in Rows, col \in Cols, ex \in Excludes :
        (\E i \in 1..Len(schedule) :
            /\ schedule[i].roundId \notin {r, ex}
            /\ SeriesOf(series, schedule[i].roundId) = SeriesOf(series, r)
            /\ row \in RowsOf(series, courtCount, schedule[i]))
        => ~Verdict(r, row, col, ex).valid

(***************************************************************************)
(* C18.  canScheduleRound answers valid only if every other scheduled      *)
(* round of the same series (the round itself and the excluded one aside)  *)
(* with a smaller round number starts on a row <= the target row, and      *)
(* every one with a larger round number on a row >= the target row.        *)
(***************************************************************************)
C18_ValidRespectsRoundOrder ==
    \A r \in RoundIds(series), row \in Rows, col \in Cols, ex \in Excludes :
        Verdict(r, row, col, ex).valid =>
            \A i \in 1..Len(schedule) :
                (/\ schedule[i].roundId \notin {r, ex}
                 /\ SeriesOf(series, schedule[i].roundId) = SeriesOf(series, r))
                => LET other == FindRound(series, schedule[i].roundId).roundNumber
                       mine  == FindRound(series, r).roundNumber
                   IN  /\ other < mine => schedule[i].row <= row
                       /\ other > mine => schedule[i].row >= row

\* canScheduleRound has refused a placement for the order of the rounds
\* while a later round of a series started on the first row.
C18_Witness ==
    /\ last = Ran("canScheduleRound", "order")
    /\ \E i \in 1..Len(schedule) :
           /\ schedule[i].row = 0
           /\ FindRound(series, schedule[i].roundId).roundNumber > 1

(***************************************************************************)
(* C19.  canScheduleRound never changes the schedule, the history, the     *)
(* series or the settings, whatever its arguments and its answer.          *)
(***************************************************************************)
C19_CanScheduleRoundChangesNothing ==
    [][last'.op = "canScheduleRound" =>
          UNCHANGED <<schedule, scheduleHistory, series, courtCount>>]_vars

\* canScheduleRound has accepted a placement on a grid that holds rounds and
\* a history.
C19_Witness ==
    /\ last = Ran("canScheduleRound", "valid")
    /\ Len(schedule) >= 1
    /\ Len(scheduleHistory) >= 1

(***************************************************************************)
(* C20.  Claimed: with a round id that belongs to no series,               *)
(* scheduleRound, scheduleRoundWithPush, scheduleRoundNext,                *)
(* moveScheduledRound and unscheduleRound leave the schedule and the       *)
(* history unchanged, and canScheduleRound answers invalid, round not      *)
(* found.                                                                  *)
(***************************************************************************)
C20_UnknownRoundChangesNothing ==
    [][/\ last'.op = "scheduleRound" =>
              \A row \in Rows, col \in Cols :
                  scheduleRound(UnknownId, row, col)
                      => UNCHANGED <<schedule, scheduleHistory>>
       /\ last'.op = "moveScheduledRound" =>
              \A row \in Rows, col \in Cols :
                  moveScheduledRound(UnknownId, row, col)
                      => UNCHANGED <<schedule, scheduleHistory>>
       /\ last'.op = "unscheduleRound" =>
              (unscheduleRound(UnknownId) => UNCHANGED <<schedule, scheduleHistory>>)
       /\ last'.op = "scheduleRoundWithPush" =>
              \A row \in Rows, col \in Cols :
                  scheduleRoundWithPush(UnknownId, row, col)
                      => UNCHANGED <<schedule, scheduleHistory>>
       /\ last'.op = "scheduleRoundNext" =>
              (scheduleRoundNext(UnknownId) => UNCHANGED <<schedule, scheduleHistory>>)
       /\ last'.op = "canScheduleRound" =>
              \A row \in Rows, col \in Cols, ex \in Excludes :
                  canScheduleRound(UnknownId, row, col, ex)
                      => last'.outcome = "notfound"]_vars

\* The entries of a schedule for other ids than the unknown one.
KnownEntries(sch) == {sr \in Range(sch) : sr.roundId # UnknownId}

\* C20, amended: with a round id that belongs to no series,
\* scheduleRoundWithPush and scheduleRoundNext leave the schedule and the
\* history unchanged and canScheduleRound answers invalid, round not found,
\* changing nothing.  scheduleRound, moveScheduledRound and unscheduleRound
\* do not look the round up: scheduleRound puts the entry (id, row, col) in
\* place of any entry of that id, moveScheduledRound moves the entry of that
\* id if there is one, unscheduleRound removes it if there is one; the three
\* leave the entries of the other rounds alone and push the pre-call schedule
\* onto the history.
C20_OnlyLookupsRefuseUnknownRound ==
    [][/\ last'.op = "scheduleRoundWithPush" =>
              \A row \in Rows, col \in Cols :
                  scheduleRoundWithPush(UnknownId, row, col)
                      => UNCHANGED <<schedule, scheduleHistory>>
       /\ last'.op = "scheduleRoundNext" =>
              (scheduleRoundNext(UnknownId) => UNCHANGED <<schedule, scheduleHistory>>)
       /\ last'.op = "canScheduleRound" =>
              \A row \in Rows, col \in Cols, ex \in Excludes :
                  canScheduleRound(UnknownId, row, col, ex)
                      => /\ last'.outcome = "notfound"
                         /\ UNCHANGED <<schedule, scheduleHistory>>
       /\ last'.op = "scheduleRound" =>
              \A row \in Rows, col \in Cols :
                  scheduleRound(UnknownId, row, col)
                      => /\ Range(schedule') =
                                KnownEntries(schedule)
                                    \cup {[roundId |-> UnknownId, row |-> row,
                                           startCol |-> col]}
                         /\ Len(schedule') = Cardinality(KnownEntries(schedule)) + 1
                         /\ scheduleHistory' = Append(scheduleHistory, schedule)
       /\ last'.op = "moveScheduledRound" =>
              \A row \in Rows, col \in Cols :
                  moveScheduledRound(UnknownId, row, col)
                      => /\ Len(schedule') = Len(schedule)
                         /\ KnownEntries(schedule') = KnownEntries(schedule)
                         /\ \A i \in 1..Len(schedule') :
                                schedule'[i].roundId = UnknownId
                                    => (/\ schedule[i].roundId = UnknownId
                                        /\ schedule'[i].row = row
                                        /\ schedule'[i].startCol = col)
                         /\ scheduleHistory' = Append(scheduleHistory, schedule)
       /\ last'.op = "unscheduleRound" =>
              (unscheduleRound(UnknownId)
                  => /\ Range(schedule') = KnownEntries(schedule)
                     /\ Len(schedule') = Cardinality(KnownEntries(schedule))
                     /\ scheduleHistory' = Append(scheduleHistory, schedule))]_vars

\* scheduleRoundWithPush has refused the unknown id on a schedule that holds
\* the entry scheduleRound made for that id.
C20_Witness ==
    /\ last = Ran("scheduleRoundWithPush", "notfound")
    /\ Len(scheduleHistory) = 1
    /\ \E i \in 1..Len(schedule) : schedule[i].roundId = UnknownId

(***************************************************************************)
(* C21.  Every call of scheduleRound, scheduleRoundWithPush,               *)
(* scheduleRoundNext, moveScheduledRound, unscheduleRound, clearSchedule,  *)
(* removeEmptyCell or autoSchedule either leaves the schedule and the      *)
(* history as they were, or makes the history the old history with the     *)
(* pre-call schedule appended, cut to its last 20 snapshots; the schedule  *)
(* never changes without that push and a refused call pushes nothing.      *)
(***************************************************************************)
\* The history after a push of the pre-call schedule.
HistoryAfterPush ==
    IF Len(scheduleHistory) < HistoryCap THEN Append(scheduleHistory, schedule)
    ELSE Append(Tail(scheduleHistory), schedule)

C21_MutationsAreAllOrNothing ==
    [][last'.op \in MutatingOps =>
          /\ \/ UNCHANGED <<schedule, scheduleHistory>>
             \/ scheduleHistory' = HistoryAfterPush
          /\ last'.outcome # "applied" => UNCHANGED <<schedule, scheduleHistory>>]_vars

\* A call was refused after calls that were applied.
C21_Witness ==
    /\ last.op \in MutatingOps
    /\ last.outcome # "applied"
    /\ Len(scheduleHistory) > 1
    /\ schedule # <<>>

(***************************************************************************)
(* C22.  undoSchedule on an empty history changes neither the schedule nor *)
(* the history; on a history that is not empty it removes the most recent  *)
(* snapshot and no other, makes it the schedule, and pushes nothing: the   *)
(* schedule it replaced is in no snapshot it leaves behind unless it was   *)
(* there before.                                                           *)
(***************************************************************************)
C22_UndoPopsTheMostRecentSnapshot ==
    [][last'.op = "undoSchedule" =>
          IF Len(scheduleHistory) = 0
          THEN UNCHANGED <<schedule, scheduleHistory>>
          ELSE /\ schedule' = scheduleHistory[Len(scheduleHistory)]
               /\ Len(scheduleHistory') = Len(scheduleHistory) - 1
               /\ \A k \in 1..Len(scheduleHistory') :
                      scheduleHistory'[k] = scheduleHistory[k]]_vars

\* Two undos in a row: the second gave back the snapshot before the one the
\* first gave back, and the history is empty again.
C22_Witness ==
    /\ last = Ran("undoSchedule", "applied")
    /\ Len(scheduleHistory) = 0
    /\ schedule = <<>>

(***************************************************************************)
(* C23.  scheduleRound(roundId, row, col) checks nothing: the new schedule *)
(* is the previous one without the entry of roundId, the other entries     *)
(* unchanged, and with (roundId, row, col) appended last; the pre-call     *)
(* schedule is pushed onto the history, also when the new footprint        *)
(* overlaps other rounds.                                                  *)
(***************************************************************************)
\* The step took the entry of r out and put (r, row, col) last.
PlacedLast(r, row, col) ==
    LET n == Len(schedule')
    IN  /\ n >= 1
        /\ schedule'[n] = [roundId |-> r, row |-> row, startCol |-> col]
        /\ n - 1 = Cardinality({i \in 1..Len(schedule) : schedule[i].roundId # r})
        /\ \A i \in 1..(n - 1) :
               schedule'[i].roundId # r /\ schedule'[i] \in Range(schedule)
        /\ \A i \in 1..Len(schedule) :
               schedule[i].roundId # r => schedule[i] \in Range(schedule')
        /\ scheduleHistory' = Append(scheduleHistory, schedule)

C23_ScheduleRoundPlacesWithoutValidation ==
    [][last'.op = "scheduleRound" =>
          \A r \in RoundIds(series), row \in Rows, col \in Cols :
              scheduleRound(r, row, col) => PlacedLast(r, row, col)]_vars

\* scheduleRound has put a round on the start cell of another round.
C23_Witness ==
    /\ last = Ran("scheduleRound", "applied")
    /\ Len(schedule) >= 2
    /\ \E i \in 1..(Len(schedule) - 1) :
           /\ schedule[i].row = schedule[Len(schedule)].row
           /\ schedule[i].startCol = schedule[Len(schedule)].startCol
    /\ ~NoSharedCell(series, courtCount, schedule)

(***************************************************************************)
(* C24.  Whatever rounds addRound and removeRound have added to and taken  *)
(* out of a series, the roundNumber values of its rounds are 1..N in list  *)
(* order; and after removeRound or removeSeries the schedule has no entry  *)
(* for a round the call removed.                                           *)
(***************************************************************************)
NumberedInOrder(ser) ==
    \A i \in 1..Len(ser) : \A n \in 1..Len(ser[i].rounds) :
        ser[i].rounds[n].roundNumber = n

\* The rounds of series sid.
RoundsIn(ser, sid) == UNION {{r.id : r \in Range(ser[i].rounds)} : i \in {k \in 1..Len(ser) : ser[k].id = sid}}

C24_RoundNumbersStayDenseAndRemovalsUnschedule ==
    [][/\ NumberedInOrder(series')
       /\ last'.op = "removeRound" =>
              \A sid \in SeriesIds, r \in RoundIds(series) :
                  removeRound(sid, r) =>
                      /\ \A sr \in Range(schedule') : sr.roundId # r
                      /\ r \notin RoundsIn(series', sid)
       /\ last'.op = "removeSeries" =>
              \A sid \in SeriesIds :
                  removeSeries(sid) =>
                      /\ \A sr \in Range(schedule') : sr.roundId \notin RoundsIn(series, sid)
                      /\ RoundsIn(series', sid) = {}]_vars

\* removeRound has run on a placed schedule: the second round of a series
\* is now its number 1 and has its entry, as the rounds of the other series.
C24_Witness ==
    /\ last = Ran("removeRound", "applied")
    /\ Len(scheduleHistory) = 1
    /\ \E i \in 1..Len(series) :
           /\ Len(series[i].rounds) = 1
           /\ series[i].rounds[1].id = <<series[i].id, 2>>
           /\ series[i].rounds[1].roundNumber = 1
    /\ Len(schedule) >= 2
    /\ {sr.roundId : sr \in Range(schedule)} = RoundIds(series)

(***************************************************************************)
(* C25.  When scheduleRoundWithPush(roundId, row, col) is applied and the  *)
(* target footprint covers a cell of another round, with t the linear      *)
(* index of (row, col) and m the span of roundId: every other round that   *)
(* started at an index >= t, or had a cell under the target, starts at its *)
(* old start index + m; every other round is where it was; roundId has the *)
(* one entry (row, col); the pre-call schedule is pushed onto the history. *)
(***************************************************************************)
\* Entry sr, started m cells later.
Later(sr, m, cc) ==
    [roundId |-> sr.roundId,
     row |-> (sr.row * cc + sr.startCol + m) \div cc,
     startCol |-> (sr.row * cc + sr.startCol + m) % cc]

\* The step put (r, row, col) in and moved the rounds from the insertion
\* point on by the span of r.
InsertedAndPushed(r, row, col) ==
    LET m      == FindRound(series, r).matchCount
        t      == row * courtCount + col
        target == FootprintCells(row, col, m, courtCount)
        others == {sr \in Range(schedule) : sr.roundId # r}
        moved(sr) == \/ sr.row * courtCount + sr.startCol >= t
                     \/ CellsOf(series, courtCount, sr) \cap target # {}
    IN  /\ Range(schedule') =
               {IF moved(sr) THEN Later(sr, m, courtCount) ELSE sr : sr \in others}
                   \cup {[roundId |-> r, row |-> row, startCol |-> col]}
        /\ Len(schedule') = Cardinality(others) + 1
        /\ scheduleHistory' = Append(scheduleHistory, schedule)

C25_PushShiftsLaterRoundsBySpan ==
    [][(last'.op = "scheduleRoundWithPush" /\ last'.outcome = "applied") =>
          \A r \in RoundIds(series), row \in Rows, col \in Cols :
              (~TargetIsClear(r, row, col) /\ scheduleRoundWithPush(r, row, col))
              => InsertedAndPushed(r, row, col)]_vars

\* A push has moved a round off the target cell while a round in front of
\* the target stayed where it was.
C25_Witness ==
    /\ last = Ran("scheduleRoundWithPush", "applied")
    /\ Len(scheduleHistory) >= 1
    /\ LET before == Range(scheduleHistory[Len(scheduleHistory)])
       IN  \E new \in Range(schedule), stay \in Range(schedule) \cap before :
               /\ stay.roundId # new.roundId
               /\ stay.row * courtCount + stay.startCol
                      < new.row * courtCount + new.startCol
               /\ \E gone \in before \ Range(schedule) :
                      /\ gone.roundId # new.roundId
                      /\ gone.row = new.row
                      /\ gone.startCol = new.startCol

(***************************************************************************)
(* C26.  scheduleRoundWithPush(roundId, row, col) with (row, col) the      *)
(* first cell of another scheduled round X is never refused: whatever the  *)
(* spans, roundId is inserted at (row, col) and X and every later round    *)
(* are moved forward.                                                      *)
(***************************************************************************)
\* (row, col) is the start cell of an entry of another round than r.
OnFirstCellOfAnother(r, row, col) ==
    \E i \in 1..Len(schedule) :
        /\ schedule[i].roundId # r
        /\ schedule[i].row = row
        /\ schedule[i].startCol = col

C26_PushOnFirstCellAlwaysInserts ==
    [][last'.op = "scheduleRoundWithPush" =>
          \A r \in RoundIds(series), row \in Rows, col \in Cols :
              (OnFirstCellOfAnother(r, row, col) /\ scheduleRoundWithPush(r, row, col))
              => (last'.outcome = "applied" /\ InsertedAndPushed(r, row, col))]_vars

(***************************************************************************)
(* C27.  On a schedule whose footprints share no cell,                     *)
(* scheduleRoundWithPush(roundId, row, col) with (row, col) a cell of      *)
(* another scheduled round's footprint other than its first is refused:    *)
(* the schedule and the history stay as they were.                         *)
(***************************************************************************)
\* (row, col) is in the footprint of an entry of another round than r, and
\* is not where that entry starts.
OnLaterCellOfAnother(r, row, col) ==
    \E i \in 1..Len(schedule) :
        /\ schedule[i].roundId # r
        /\ [row |-> row, col |-> col] \in CellsOf(series, courtCount, schedule[i])
        /\ <<schedule[i].row, schedule[i].startCol>> # <<row, col>>

CoveredCells == UNION {CellsOf(series, courtCount, sr) : sr \in Range(schedule)}

\* The cell the claim gives round r.
FirstFreeCell(r) ==
    IF schedule = <<>> THEN [row |-> 0, col |-> 0]
    ELSE LET maxRow == Max({c.row : c \in CoveredCells})
             m      == FindRound(series, r).matchCount
             free   == {c \in [row : maxRow..(maxRow + 5), col : 0..(courtCount - 1)] :
                           FootprintCells(c.row, c.col, m, courtCount) \cap CoveredCells = {}}
         IN  IF free = {} THEN [row |-> maxRow + 1, col |-> 0]
             ELSE CHOOSE c \in free :
                      \A d \in free : c.row < d.row \/ (c.row = d.row /\ c.col <= d.col)

C28_ScheduleRoundNextTakesFirstFreeCell ==
    [][last'.op = "scheduleRoundNext" =>
          \A r \in RoundIds(series) :
              scheduleRoundNext(r) =>
                  PlacedLast(r, FirstFreeCell(r).row, FirstFreeCell(r).col)]_vars

\* scheduleRoundNext has put a round on the last row in use, behind the
\* cells taken there.
C28_Witness ==
    /\ last = Ran("scheduleRoundNext", "applied")
    /\ Len(schedule) >= 2
    /\ schedule[Len(schedule)].startCol > 0
    /\ \E i \in 1..(Len(schedule) - 1) :
           \E c \in CellsOf(series, courtCount, schedule[i]) :
               /\ c.row = schedule[Len(schedule)].row
               /\ c.col < schedule[Len(schedule)].startCol

(***************************************************************************)
(* C29.  autoSchedule is first-fit in a fixed order: it takes the rounds   *)
(* by series name, then by round number, and gives each the smallest       *)
(* (row, col), rows before columns, with row >= the minimum row of its     *)
(* series (0 for the first round placed of the series, otherwise 1 + the   *)
(* largest row spanned by the round of the series placed before it), whose *)
(* footprint meets no footprint placed before and touches no row that      *)
(* already holds a round of the series.                                    *)
(***************************************************************************)
\* The name of the series of entry sr.
NameOf(sr) ==
    LET sid == SeriesOf(series, sr.roundId)
    IN  series[CHOOSE i \in 1..Len(series) : series[i].id = sid].name

\* Entry k comes no earlier than entry k - 1 by (series name, round number).
InPlacingOrder(k) ==
    k > 1 =>
        \/ NameOf(schedule[k - 1]) < NameOf(schedule[k])
        \/ /\ NameOf(schedule[k - 1]) = NameOf(schedule[k])
           /\ FindRound(series, schedule[k - 1].roundId).roundNumber
                  <= FindRound(series, schedule[k].roundId).roundNumber

\* The entries placed before entry k that are of its series.
EarlierOfSeries(k) == {i \in 1..(k - 1) : SameSeries(series, schedule[i], schedule[k])}

MinRowOf(k) ==
    IF EarlierOfSeries(k) = {} THEN 0
    ELSE 1 + Max(RowsOf(series, courtCount, schedule[Max(EarlierOfSeries(k))]))

\* The round of entry k fits at (row, col) among the entries before it.
FitsAt(k, row, col) ==
    LET cells == FootprintCells(row, col, SpanOf(series, schedule[k]), courtCount)
    IN  /\ \A i \in 1..(k - 1) : CellsOf(series, courtCount, schedule[i]) \cap cells = {}
        /\ \A i \in EarlierOfSeries(k) :
               RowsOf(series, courtCount, schedule[i]) \cap {c.row : c \in cells} = {}

C29_AutoScheduleIsFirstFit ==
    last = Ran("autoSchedule", "applied") =>
        \A k \in 1..Len(schedule) :
            /\ InPlacingOrder(k)
            /\ schedule[k].row >= MinRowOf(k)
            /\ FitsAt(k, schedule[k].row, schedule[k].startCol)
            /\ \A row \in MinRowOf(k)..schedule[k].row, col \in Cols :
                   (row < schedule[k].row \/ col < schedule[k].startCol)
                       => ~FitsAt(k, row, col)

\* autoSchedule has placed the series listed second first, because of its
\* name, and has passed over a row on which a round did not fit.
C29_Witness ==
    /\ last = Ran("autoSchedule", "applied")
    /\ Len(series) = 2
    /\ series[1].name > series[2].name
    /\ Len(schedule) >= 3
    /\ SeriesOf(series, schedule[1].roundId) = series[2].id
    /\ \E k \in 1..Len(schedule) :
           /\ EarlierOfSeries(k) = {}
           /\ schedule[k].row > 0

(***************************************************************************)
(* C30.  autoSchedule finishes on every configuration with at least one    *)
(* court and spans of at least 1, spans larger than the number of courts   *)
(* included: every search for a start cell ends, and no round is placed    *)
(* beyond the row numbered by the sum of all spans.                        *)
(***************************************************************************)
RECURSIVE SumOfSpans(_)
SumOfSpans(rounds) ==
    IF rounds = <<>> THEN 0 ELSE Head(rounds).matchCount + SumOfSpans(Tail(rounds))

C30_AutoScheduleTerminates ==
    last.op = "autoSchedule" =>
        /\ last.outcome = "applied"
        /\ \A sr \in Range(schedule) :
               \A row \in RowsOf(series, courtCount, sr) :
                   row < SumOfSpans(AllRounds(series))

\* autoSchedule has placed every round of a configuration in which a span
\* is larger than the number of courts.
C30_Witness ==
    /\ last = Ran("autoSchedule", "applied")
    /\ Len(schedule) = Len(AllRounds(series))
    /\ Len(schedule) >= 3
    /\ \E sr \in Range(schedule) : SpanOf(series, sr) > courtCount
    /\ \E sr \in Range(schedule) : sr.row >= 3

(***************************************************************************)
(* C31.  autoSchedule does not depend on the schedule it replaces: with    *)
(* the same series and court count it produces the schedule it produces    *)
(* from the empty schedule, whatever the schedule and the history before   *)
(* the call; run right after itself it produces the same schedule again.   *)
(***************************************************************************)
C31_AutoScheduleIgnoresTheSchedule ==
    [][(last'.op = "autoSchedule" /\ last'.outcome = "applied") =>
          /\ schedule' = autoScheduleResult(series, courtCount, <<>>).schedule
          /\ last.op = "autoSchedule" => schedule' = schedule]_vars

\* autoSchedule has run on a schedule that scheduleRoundNext had made, and
\* has put the round of that schedule somewhere else.
C31_Witness ==
    /\ last = Ran("autoSchedule", "applied")
    /\ Len(scheduleHistory) = 2
    /\ scheduleHistory[1] = <<>>
    /\ Len(scheduleHistory[2]) = 1
    /\ scheduleHistory[2][1] \notin Range(schedule)
    /\ Len(schedule) >= 2

(***************************************************************************)
(* C32.  canScheduleRound makes its checks in the order round not found,   *)
(* courts, cells occupied, series on the row, round order, and answers     *)
(* with the reason of the first check that fails: courts when the courts   *)
(* and the cells both fail, occupied when a cell is occupied and the       *)
(* series is on the row.                                                   *)
(***************************************************************************)
\* The entries canScheduleRound(r, ..., ex) looks at.
Compared(r, ex) == {sr \in Range(schedule) : sr.roundId # r /\ sr.roundId # ex}

CourtsFail(r, col) == col + FindRound(series, r).matchCount > courtCount

\* An entry on the row has one of the wanted columns among the columns it
\* counts from its start column.
CellsFail(r, row, col, ex) ==
    \E sr \in Compared(r, ex) :
        /\ sr.row = row
        /\ \E c \in col..(col + FindRound(series, r).matchCount - 1) :
               /\ c >= sr.startCol
               /\ c < sr.startCol + Max({1, SpanOf(series, sr)})

SeriesRowFails(r, row, ex) ==
    \E sr \in Compared(r, ex) :
        sr.row = row /\ SeriesOf(series, sr.roundId) = SeriesOf(series, r)

OrderFails(r, row, ex) ==
    \E sr \in Compared(r, ex) :
        /\ SeriesOf(series, sr.roundId) = SeriesOf(series, r)
        /\ LET mine   == FindRound(series, r).roundNumber
               theirs == FindRound(series, sr.roundId).roundNumber
           IN  (theirs < mine /\ sr.row > row) \/ (theirs > mine /\ sr.row < row)

\* The reason of the first failing check, in the claimed order.
FirstFailure(r, row, col, ex) ==
    CASE r \notin RoundIds(series) -> "notfound"
      [] r \in RoundIds(series) /\ CourtsFail(r, col) -> "courts"
      [] OTHER ->
           IF CellsFail(r, row, col, ex) THEN "occupied"
           ELSE IF SeriesRowFails(r, row, ex) THEN "seriesRow"
           ELSE IF OrderFails(r, row, ex) THEN "order"
           ELSE "valid"

C32_FirstFailingCheckGivesTheReason ==
    \A r \in RoundIds(series) \cup {UnknownId}, row \in Rows, col \in Cols, ex \in Excludes :
        /\ Verdict(r, row, col, ex).reason = FirstFailure(r, row, col, ex)
        /\ Verdict(r, row, col, ex).valid <=> FirstFailure(r, row, col, ex) = "valid"

\* The state has a target at which the courts and the cells both fail, and
\* one at which a cell is occupied by a round of the series.
C32_Witness ==
    /\ \E r \in RoundIds(series), row \in Rows, col \in Cols :
           /\ CourtsFail(r, col)
           /\ CellsFail(r, row, col, NoExclude)
           /\ Verdict(r, row, col, NoExclude).reason = "courts"
    /\ \E r \in RoundIds(series), row \in Rows, col \in Cols :
           /\ ~CourtsFail(r, col)
           /\ CellsFail(r, row, col, NoExclude)
           /\ SeriesRowFails(r, row, NoExclude)
           /\ Verdict(r, row, col, NoExclude).reason = "occupied"
    /\ last.op = "canScheduleRound"

(***************************************************************************)
(* C33.  When rounds are placed by scheduleRound only where                *)
(* canScheduleRound answers valid, and otherwise only unscheduled and      *)
(* undone, from the empty schedule on fixed series and courts, every       *)
(* schedule has no cell in two footprints, no row with two rounds of one   *)
(* series, and the rounds of a series on rows ordered as their numbers.    *)
(***************************************************************************)
C33_GatedPlacementKeepsTheInvariants ==
    /\ NoSharedCell(series, courtCount, schedule)
    /\ SeriesRowExclusive(series, schedule)
    /\ RowsFollowRoundNumbers(series, schedule)

\* Every round is placed, after a round was moved: two series share a row
\* and the two rounds of a series are on different rows.
C33_Witness ==
    /\ last = Ran("scheduleRound", "applied")
    /\ {sr.roundId : sr \in Range(schedule)} = RoundIds(series)
    /\ Len(scheduleHistory) > Len(schedule)
    /\ \E a, b \in Range(schedule) :
           a.row = b.row /\ ~SameSeries(series, a, b)

(***************************************************************************)
(* C34.  In every state reached from the empty schedule by                 *)
(* scheduleRoundWithPush, scheduleRoundNext, removeEmptyCell,              *)
(* unscheduleRound, clearSchedule, autoSchedule and undoSchedule, on fixed *)
(* series with spans of at least 1 and target columns 0..courtCount-1, no  *)
(* cell is in the footprints of two rounds: neither the forward shift of   *)
(* the push nor the backward shift of the compaction makes two rounds      *)
(* collide.                                                                *)
(***************************************************************************)
C34_ScreenOperationsNeverOverlap == NoSharedCell(series, courtCount, schedule)

\* A compaction has pulled a wrapped round back by one cell, behind a
\* round that stayed.
C34_Witness ==
    /\ last = Ran("removeEmptyCell", "applied")
    /\ Len(scheduleHistory) >= 3
    /\ Len(schedule) >= 2
    /\ \E sr \in Range(schedule) :
           /\ sr \notin Range(Previous)
           /\ Cardinality(RowsOf(series, courtCount, sr)) >= 2
    /\ \E sr \in Range(schedule) : sr \in Range(Previous)

(***************************************************************************)
(* C39.  In every state reached by scheduleRoundWithPush (row >= 0 and     *)
(* 0 <= col < courtCount), scheduleRoundNext, removeEmptyCell,             *)
(* unscheduleRound, clearSchedule, autoSchedule and undoSchedule, every    *)
(* entry has row >= 0 and 0 <= startCol < courtCount: a shift by linear    *)
(* index yields no negative row and no column off the grid.                *)
(***************************************************************************)
C39_EntriesStayOnTheGrid ==
    \A sr \in Range(schedule) :
        sr.row >= 0 /\ sr.startCol >= 0 /\ sr.startCol < courtCount

\* A compaction has pulled a round from the first column of a row to the
\* last column of the row before.
C39_Witness ==
    /\ last = Ran("removeEmptyCell", "applied")
    /\ courtCount >= 2
    /\ \E sr \in Range(schedule), old \in Range(Previous) :
           /\ sr.roundId = old.roundId
           /\ old.startCol = 0
           /\ sr.startCol = courtCount - 1
           /\ sr.row = old.row - 1

(***************************************************************************)
(* C35.  With at least one court, scheduleRoundNext on a schedule that is  *)
(* not empty starts the round on row maxRow or maxRow + 1, on cells that   *)
(* no footprint of the schedule covers; the scan of rows maxRow..maxRow+5  *)
(* always finds a start, so the fallback to (maxRow + 1, 0) after a scan   *)
(* without result is never taken.                                          *)
(***************************************************************************)
LastRowInUse == Max({c.row : c \in CoveredCells})

\* The scan window has a start from which round r lies on free cells.
ScanFinds(r) ==
    \E row \in LastRowInUse..(LastRowInUse + 5), col \in 0..(courtCount - 1) :
        FootprintCells(row, col, FindRound(series, r).matchCount, courtCount)
            \cap CoveredCells = {}

C35_ScheduleRoundNextStaysByTheLastRow ==
    [][(last'.op = "scheduleRoundNext" /\ schedule # <<>>) =>
          \A r \in RoundIds(series) :
              scheduleRoundNext(r) =>
                  LET new == schedule'[Len(schedule')]
                  IN  /\ ScanFinds(r)
                      /\ new.roundId = r
                      /\ new.row \in {LastRowInUse, LastRowInUse + 1}
                      /\ FootprintCells(new.row, new.startCol,
                                        FindRound(series, r).matchCount, courtCount)
                             \cap CoveredCells = {}]_vars

\* scheduleRoundNext has started a round on the row after the last one in
\* use, whose last cell was taken.
C35_Witness ==
    /\ last = Ran("scheduleRoundNext", "applied")
    /\ Len(schedule) >= 2
    /\ LET new  == schedule[Len(schedule)]
           rest == UNION {CellsOf(series, courtCount, schedule[i]) : i \in 1..(Len(schedule) - 1)}
       IN  /\ new.startCol = 0
           /\ new.row = Max({c.row : c \in rest}) + 1
           /\ [row |-> new.row - 1, col |-> courtCount - 1] \in rest

(***************************************************************************)
(* C36.  removeEmptyCell and the shift of scheduleRoundWithPush keep the   *)
(* order of the start positions: of two rounds other than the placed one,  *)
(* the one that started at the smaller or equal linear index still does    *)
(* after the call; hence removeEmptyCell never turns a schedule whose      *)
(* series have their rounds on rows ordered as their numbers into one that *)
(* has not.                                                                *)
(***************************************************************************)
\* The entry the step left for the round of entry sr.
After(sr) == CHOOSE e \in Range(schedule') : e.roundId = sr.roundId

\* The step kept the order of the starts of the rounds other than r.
KeepsStartOrder(r) ==
    \A x, y \in {sr \in Range(schedule) : sr.roundId # r} :
        /\ \E e \in Range(schedule') : e.roundId = x.roundId
        /\ StartIndex(x, courtCount) <= StartIndex(y, courtCount)
               => StartIndex(After(x), courtCount) <= StartIndex(After(y), courtCount)

\* Both operations keep the order of the starts.
ShiftsKeepStartOrder ==
    /\ (last'.op = "removeEmptyCell" /\ last'.outcome = "applied")
           => KeepsStartOrder(NoExclude)
    /\ (last'.op = "scheduleRoundWithPush" /\ last'.outcome = "applied")
           => \A r \in RoundIds(series), row \in Rows, col \in Cols :
                  scheduleRoundWithPush(r, row, col) => KeepsStartOrder(r)

C36_CompactKeepsRowOrder ==
    [][/\ ShiftsKeepStartOrder
       /\ (last'.op = "removeEmptyCell" /\ RowsFollowRoundNumbers(series, schedule))
              => RowsFollowRoundNumbers(series, schedule')]_vars

\* The order of the starts is kept on every step, and the row order of the
\* series on every compaction of a schedule in which no series has two
\* rounds starting on one row.
StartOrderKeptAndRowOrderOfExclusiveRows ==
    [][/\ ShiftsKeepStartOrder
       /\ (/\ last'.op = "removeEmptyCell"
           /\ RowsFollowRoundNumbers(series, schedule)
           /\ SeriesRowExclusive(series, schedule))
              => RowsFollowRoundNumbers(series, schedule')]_vars

(***************************************************************************)
(* C37.  Every roundId of the schedule is the id of a round of some        *)
(* series, after any placing of rounds that exist, any removal of a round  *)
(* or a series and any undo: a removal also keeps undo from bringing an    *)
(* entry of the removed round back.                                        *)
(***************************************************************************)
C37_ScheduleRefersToRounds ==
    \A sr \in Range(schedule) : sr.roundId \in RoundIds(series)

(***************************************************************************)
(* C38.  moveScheduledRound and unscheduleRound of a round that has no     *)
(* entry in the schedule, and clearSchedule of an empty schedule, leave    *)
(* the schedule as it is (the move creates no entry) and still push one    *)
(* snapshot onto the history; an undoSchedule that follows takes a         *)
(* snapshot off the history and leaves the schedule as it is.              *)
(***************************************************************************)
HasNoEntry(r) == \A sr \in Range(schedule) : sr.roundId # r

\* The step has left the schedule alone and has pushed it onto the history.
PushedAndUnchanged ==
    /\ schedule' = schedule
    /\ scheduleHistory' # <<>>
    /\ scheduleHistory'[Len(scheduleHistory')] = schedule
    /\ Len(scheduleHistory) < HistoryCap
           => Len(scheduleHistory') = Len(scheduleHistory) + 1

\* The last operation was one of the three and has changed nothing.
AfterIdleOperation ==
    /\ last.op \in {"moveScheduledRound", "unscheduleRound", "clearSchedule"}
    /\ scheduleHistory # <<>>
    /\ Previous = schedule

C38_IdleOperationsStillPush ==
    [][/\ last'.op = "moveScheduledRound"
           => \A r \in RoundIds(series), row \in Rows, col \in Cols :
                  (HasNoEntry(r) /\ moveScheduledRound(r, row, col))
                  => PushedAndUnchanged
       /\ last'.op = "unscheduleRound"
           => \A r \in RoundIds(series) :
                  (HasNoEntry(r) /\ unscheduleRound(r)) => PushedAndUnchanged
       /\ (schedule = <<>> /\ clearSchedule) => PushedAndUnchanged
       /\ (AfterIdleOperation /\ undoSchedule)
           => /\ schedule' = schedule
              /\ Len(scheduleHistory') = Len(scheduleHistory) - 1]_vars

\* A round with no entry has been unscheduled while another round was
\* placed: the schedule is as before, and the history holds one snapshot more.
C38_Witness ==
    /\ last = Ran("unscheduleRound", "applied")
    /\ Len(scheduleHistory) = 2
    /\ Previous = schedule
    /\ Len(schedule) = 1
    /\ scheduleHistory[1] = <<>>

====
